---- MODULE Spec2Model ----
(***************************************************************************)
(* libexcept (src/except.h, src/except.c): setjmp/longjmp exceptions for   *)
(* C.  Every try block is the for-loop the __EXCEPT_TRY macro expands to;  *)
(* the loop's stage counter and error flag are locals of the block, the    *)
(* chain of jmp_buf pointers is the per-thread try-scope stack, and the    *)
(* pending exception lives in the thread-local pair current_id /           *)
(* current_exception.                                                      *)
(***************************************************************************)
EXTENDS Integers, Sequences, FiniteSets, TLC

\* ---------------------------------------------------------------- bounds
MaxTries == 3       \* Spec: try blocks the program enters
MaxThrows == 2      \* Spec: throw() calls the program makes
CatchTries == 2     \* SpecCatch: try blocks
CatchThrows == 1    \* SpecCatch: throw() calls
HookTries == 1      \* SpecHooks: try blocks
HookThrows == 4     \* SpecHooks: throw() calls, those of the hooks included
TopThrows == 2      \* SpecTop: throw() calls of the main thread, its hooks included
OtherThrows == 1    \* SpecTop: throw() calls of the second thread
SigTries == 1       \* SpecSig: try blocks
SigThrows == 2      \* SpecSig: throw() calls and faults
DispFaults == 1     \* SpecDisp: faults
MapTries == 1       \* SpecMap: try blocks
DeferCalls == 2     \* SpecDefer: function calls
DeferDefers == 2    \* SpecDefer: defer() calls
DeferRecovers == 2  \* SpecDefer: recover() calls
DeferPanics == 1    \* SpecDefer: panic() calls
OvCalls == 2        \* SpecOverflow: function calls
BothTries == 1      \* SpecBoth: try blocks
BothThrows == 2     \* SpecBoth: throw() calls
BothCalls == 2      \* SpecBoth: function calls
BothDefers == 1     \* SpecBoth: defer() calls
BothRecovers == 1   \* SpecBoth: recover() calls
BothPanics == 1     \* SpecBoth: panic() calls
TwoTries == 1       \* SpecTwo: try blocks of the main thread
TwoThrows == 1      \* SpecTwo: throw() calls of the main thread
TwoPanics == 1      \* SpecTwo: panic() calls of the main thread
PeerCalls == 1      \* SpecTwo: function calls of the other thread
PeerDefers == 1     \* SpecTwo: defer() calls of the other thread
PeerRecovers == 1   \* SpecTwo: recover() calls of the other thread
PeerPanics == 1     \* SpecTwo: panic() calls of the other thread
PeerThrows == 1     \* SpecTwo: throw() calls of the other thread
OvDefers == 17
InitCallers == 3
OrderTries == 2
OrderThrows == 1
ExitCalls == 2
ExitDefers == 2
SuspendOps == 2
SleepOps == 1
VecPushes == 9
SearchPushes == 4
CapPushes == 9
CapReserve == 2
OnThrowTries == 2
OnThrowThrows == 1
RefaultTries == 2
RefaultFaults == 2      \* SpecOverflow: defer() calls
BufCells == 2       \* cells of current_exception the model keeps

\* ------------------------------------------------------ program constants
__EXCEPT_STAGE_TRY == 0
__EXCEPT_STAGE_CATCH == 1
__EXCEPT_STAGE_FINALLY == 2
__EXCEPT_STAGE_PROPAGATE == 3
__EXCEPT_STAGE_UNEXPECTED == -1
EXIT_FAILURE == 1
EBUSY == 16
ENOMEM == 12
VEC_DEFAULT_CAP == 8
\* (size_t)-1: the one value that is no offset into a vector.
VEC_NOT_FOUND == -1
DEFER_MAX == 16

NULL == "NULL"
Threads == {1, 2}
MainThread == CHOOSE t \in Threads : \A u \in Threads : t <= u

\* The thread that is suspended and resumed, and the threads that call
\* thrd_suspend and thrd_resume on it.
Target == CHOOSE t \in Threads : t # MainThread
Controllers == {"c1", "c2"}

Byte == 0 .. 1
UserTypes == {"int", "char"}
FaultTypes == {"arithmetic_error_t", "illegal_instruction_error_t",
               "stack_corruption_error_t", "access_violation_t",
               "misaligned_access_error_t"}
Types == UserTypes \cup FaultTypes

\* sizeof(T), in cells: a char is one cell, every other throwable two.
SizeOf(T) == IF T = "char" THEN 1 ELSE 2

\* The values user code throws.
ThrowValues(T) == IF T = "char" THEN {<<1>>} ELSE {<<0, 1>>, <<1, 1>>}

\* The clause lists user try blocks are written with, in declared order.
ClauseLists == {<<"int", "catch_any", "char", "finally">>,
                <<"char", "finally">>}

\* The catch_any clause of the try blocks inside except.c.
EngineClauses == <<"catch_any">>

\* What the build makes of a local changed between setjmp and longjmp.
ClobberChoices == {"memory", "elided", "setjmp"}

\* The signals except_enable_sigcatch() installs the handler for.
Signals == {"SIGILL", "SIGFPE", "SIGSEGV", "SIGBUS"}

\* A signal the library never touches, and all the signals of the model.
OtherSignals == {"SIGINT"}
AllSignals == Signals \cup OtherSignals

\* What a signal's disposition can be: the default, ignored, a handler of the
\* program's own, or __except_handle_signal.
ProgramDispositions == {"SIG_DFL", "SIG_IGN", "user"}

\* The si_code values __except_handle_signal tells apart, and one it does not.
FpeCodes == {"FPE_INTDIV", "FPE_INTOVF", "FPE_FLTDIV", "FPE_FLTOVF", "FPE_FLTUND",
             "FPE_FLTRES", "FPE_FLTINV", "FPE_FLTSUB"}
SiCodes == FpeCodes \cup {"BUS_ADRALN", "ILL_BADSTK", "other"}

\* The message strings of the handler; a payload cell holds a string's index.
Messages == <<"Integer division by zero.", "Integer overflow.",
              "Floating point division by zero.", "Floating point overflow.",
              "Floating point underflow.", "Floating point inexact result.",
              "Invalid floating point operation.", "Subscript out of range.",
              "Unknown arithmetic exception.", "Invalid address alignment.",
              "Access violation.", "Internal stack error.", "Illegal instruction.">>
Msg(str) == CHOOSE i \in 1 .. Len(Messages) : Messages[i] = str

\* The si_code values a signal comes with: those the handler names for it, and
\* one it does not.
CodesOf(signal) ==
    CASE signal = "SIGFPE" -> FpeCodes \cup {"other"}
      [] signal = "SIGBUS" -> {"BUS_ADRALN", "other"}
      [] signal = "SIGILL" -> {"ILL_BADSTK", "other"}
      [] OTHER -> {"other"}

\* The faults the program runs into: signal, si_code, si_addr.
Faults == {<<"SIGFPE", "FPE_INTDIV", 1>>, <<"SIGFPE", "other", 0>>,
           <<"SIGSEGV", "other", 1>>, <<"SIGILL", "ILL_BADSTK", 1>>}

\* The clause lists of the programs that run with fault translation.
SigClauseLists == {<<"arithmetic_error_t", "catch_any", "finally">>,
                   <<"access_violation_t", "finally">>}

VARIABLES
    stack,                 \* per thread: the try blocks linked from *__except_current_context()
    pc,                    \* per thread: "body" (in the body of the top block, or outside any), "loop", "exit"
    current_id,            \* per thread: static thread_local const char* current_id
    current_exception,     \* per thread: static thread_local char current_exception[]
    sigmask,               \* per thread: blocked signals
    thrd_status,           \* per thread: "running" | "exited"
    thrd_code,             \* per thread: the status given to thrd_exit
    except_on_throw,       \* the three hooks: TRUE when installed (not NULL)
    except_on_unhandled,
    except_on_unexpected,
    disposition,           \* per signal: "SIG_DFL" | "SIG_IGN" | "user" | "handler"
    sigcatch,              \* the last call that set a fault signal's disposition:
                           \* "never" | "enabled" | "disabled" | "program"
    handled,               \* the signal __except_handle_signal is called with, and what it did
    cstack,                \* per thread: the activations of instrumented functions, outermost first
    frames,                \* per thread: the list from __defer_frame_current, outermost first
    ran,                   \* per thread: the deferred handlers called, in order
    dstate,                \* per thread: what defer() and recover() last returned, and what
                           \* the thread may still do
    proc,                  \* "running" | "killed" | "aborted"
    diag,                  \* per thread: what the engine wrote to stderr
    calls,                 \* per thread: hook name -> calls of the hook, with the argument of the last
    flight,                \* per thread: the exception being delivered, as thrown by the program
    toplevel,              \* per thread: the throw() the thread made outside every try block
    budget,                \* per thread: the try blocks and throws the program has yet to make
    once_flag,             \* __defer_once_flag: "init", "running" (the function runs) or "done"
    atexit_handlers,       \* the functions registered with atexit(), in order
    init,                  \* per caller of defer_thrd_init(): where it is
    thrd_state,            \* per thread: the state field of its struct thrd
    lock,                  \* the lock of the target's struct thrd: "free" or its holder
    signals,               \* the suspend and resume signals pending for the target
    handler,               \* handle_suspend_resume in the target: where it is, its prev
    op,                    \* per controller: its call of thrd_suspend or thrd_resume
    vec,                   \* the vector: its header fields and the cells allocated after it
    xs,                    \* the values the program has pushed and not popped, oldest first
    popped                 \* what the last vec_push or vec_pop returned

vars == <<stack, pc, current_id, current_exception, sigmask, thrd_status, thrd_code,
          except_on_throw, except_on_unhandled, except_on_unexpected, disposition,
          sigcatch, handled, cstack, frames, ran, dstate, proc, diag, calls, flight,
          toplevel, budget, once_flag, atexit_handlers, init, thrd_state, lock,
          signals, handler, op, vec, xs, popped>>

\* The state outside the two engines.
runtime == <<once_flag, atexit_handlers, init, thrd_state, lock, signals, handler, op,
            vec, xs, popped>>

ZeroBuf == [i \in 1 .. BufCells |-> 0]
NoFlight == [id |-> NULL, val |-> <<>>, via |-> "none", pure |-> TRUE, from |-> "none"]
NoCatch == [id |-> NULL, exc |-> <<>>]
HookNames == {"on_throw", "on_unhandled", "on_unexpected"}

\* The thread-local state of t and the hook pointers, as one record.
Local(t) ==
    [stack |-> stack[t], pc |-> pc[t], id |-> current_id[t], exc |-> current_exception[t],
     mask |-> sigmask[t], status |-> thrd_status[t], code |-> thrd_code[t],
     diag |-> diag[t], calls |-> calls[t], flight |-> flight[t],
     toplevel |-> toplevel[t], cstack |-> cstack[t]]

Hooks ==
    [on_throw |-> except_on_throw, on_unhandled |-> except_on_unhandled,
     on_unexpected |-> except_on_unexpected]

\* A commit to a type tag that all threads share.
Commit_sharedtag(t, m) ==
    /\ stack' = [stack EXCEPT ![t] = m.stack]
    /\ pc' = [pc EXCEPT ![t] = m.pc]
    /\ current_id' = [u \in Threads |-> m.id]
    /\ current_exception' = [current_exception EXCEPT ![t] = m.exc]
    /\ sigmask' = [sigmask EXCEPT ![t] = m.mask]
    /\ thrd_status' = [thrd_status EXCEPT ![t] = m.status]
    /\ thrd_code' = [thrd_code EXCEPT ![t] = m.code]
    /\ diag' = [diag EXCEPT ![t] = m.diag]
    /\ calls' = [calls EXCEPT ![t] = m.calls]
    /\ flight' = [flight EXCEPT ![t] = m.flight]
    /\ toplevel' = [toplevel EXCEPT ![t] = m.toplevel]
    /\ cstack' = [cstack EXCEPT ![t] = m.cstack]

\* The thread-local state of t is replaced by m.
Commit(t, m) ==
    /\ stack' = [stack EXCEPT ![t] = m.stack]
    /\ pc' = [pc EXCEPT ![t] = m.pc]
    /\ current_id' = [current_id EXCEPT ![t] = m.id]
    /\ current_exception' = [current_exception EXCEPT ![t] = m.exc]
    /\ sigmask' = [sigmask EXCEPT ![t] = m.mask]
    /\ thrd_status' = [thrd_status EXCEPT ![t] = m.status]
    /\ thrd_code' = [thrd_code EXCEPT ![t] = m.code]
    /\ diag' = [diag EXCEPT ![t] = m.diag]
    /\ calls' = [calls EXCEPT ![t] = m.calls]
    /\ flight' = [flight EXCEPT ![t] = m.flight]
    /\ toplevel' = [toplevel EXCEPT ![t] = m.toplevel]
    /\ cstack' = [cstack EXCEPT ![t] = m.cstack]

Top(s) == s[Len(s)]
Pop(s) == SubSeq(s, 1, Len(s) - 1)
SetTop(s, f) == [s EXCEPT ![Len(s)] = f]

\* ------------------------------------------------------------- the macros

\* __EXCEPT_TRY up to the for statement: a new jmp_buf linked before the old
\* one, stage 0, error the 0 sigsetjmp returns, the signal mask saved.
NewScope(cl, owner, mask) ==
    [stage |-> __EXCEPT_STAGE_TRY, error |-> 0, clauses |-> cl, owner |-> owner,
     body |-> "none", cidx |-> 0, mask |-> mask,
     var |-> <<>>, caught |-> NoCatch, recv |-> NoFlight, fresh |-> FALSE,
     threw |-> FALSE, nomatch |-> NULL, hist |-> <<>>, fn |-> 0]

\* memcpy(current_exception, exception, exception_size)
Memcpy(buf, src, n) == [i \in 1 .. BufCells |-> IF i <= n THEN src[i] ELSE buf[i]]

\* *(T*)__except_current_exception()
ReadAs(T, buf) == [i \in 1 .. SizeOf(T) |-> buf[i]]

\* strcmp(current_id, id) == 0
__except_personality(cur, id) == cur = id


\* thrd_exit(code): ends the calling thread, and only it.
thrd_exit(m, code) == [m EXCEPT !.status = "exited", !.code = code, !.pc = "exit"]

\* A try block entry that makes its jmp_buf the only scope, linked to nothing.
PushScope_unlinked(m, cl, owner) ==
    [m EXCEPT !.stack = <<[NewScope(cl, owner, m.mask) EXCEPT !.fn = Len(m.cstack)]>>,
              !.pc = "loop"]

\* Entering a try block: the scope is pushed and the for loop starts.  The
\* jmp_buf is a local of the function that is executing.
PushScope(m, cl, owner) ==
    [m EXCEPT !.stack = Append(@, [NewScope(cl, owner, m.mask) EXCEPT
                                     !.fn = Len(m.cstack)]),
              !.pc = "loop"]

\* __except_stage as the resumed loop reads it.  It is a non-volatile local:
\* unchanged since sigsetjmp (the throw came from the try body) it is still 0;
\* changed since (the block was in a catch or finally body) its value is
\* indeterminate: the -1 stored by __EXCEPT_UNEXPECTED_LOOP, the clause's own
\* stage when that store was optimised away, or the 0 held at sigsetjmp.
ClobberedStage(f, c) ==
    IF f.stage = __EXCEPT_STAGE_TRY THEN f.stage
    ELSE CASE c = "memory" -> f.stage
           [] c = "elided" -> IF f.body = "catch" THEN __EXCEPT_STAGE_CATCH
                                                  ELSE __EXCEPT_STAGE_FINALLY
           [] OTHER -> __EXCEPT_STAGE_TRY

\* A siglongjmp that leaves the signal mask as the handler found it.
siglongjmp_keepmask(m, c) ==
    LET f == Top(m.stack)
        g == [f EXCEPT !.error = 1, !.stage = ClobberedStage(f, c), !.body = "none",
                       !.threw = (@ \/ f.body = "try"), !.recv = m.flight,
                       !.fresh = TRUE, !.var = <<>>, !.caught = NoCatch]
    IN  [m EXCEPT !.stack = SetTop(@, g), !.pc = "loop", !.flight = NoFlight,
                  !.cstack = SubSeq(@, 1, f.fn)]

\* __EXCEPT_LONGJMP(**__except_current_context(), 1): control resumes in the top
\* scope's for-init, in the function the try block is written in; __except_error
\* becomes 1, the saved signal mask is restored.
siglongjmp(m, c) ==
    LET f == Top(m.stack)
        g == [f EXCEPT !.error = 1, !.stage = ClobberedStage(f, c), !.body = "none",
                       !.threw = (@ \/ f.body = "try"), !.recv = m.flight,
                       !.fresh = TRUE, !.var = <<>>, !.caught = NoCatch]
    IN  [m EXCEPT !.stack = SetTop(@, g), !.mask = f.mask, !.pc = "loop",
                  !.flight = NoFlight, !.cstack = SubSeq(@, 1, f.fn)]

__except_unexpected(m, hk) ==
    IF hk.on_unexpected
    THEN PushScope(m, EngineClauses, "on_unexpected")
    ELSE thrd_exit([m EXCEPT !.diag = Append(@, <<"Unexpected exception", m.id>>)],
                   EXIT_FAILURE)

\* An unhandled path that never calls the hook.
__except_unhandled_nohook(m, hk) ==
    thrd_exit([m EXCEPT !.diag = Append(@, <<"Unhandled exception", m.id>>)],
              EXIT_FAILURE)

__except_unhandled(m, hk) ==
    IF hk.on_unhandled
    THEN PushScope(m, EngineClauses, "on_unhandled")
    ELSE thrd_exit([m EXCEPT !.diag = Append(@, <<"Unhandled exception", m.id>>)],
                   EXIT_FAILURE)

\* A transfer to the outermost scope of the thread, past the ones inside it.
ThrowTransfer_outermost(m, hk, c) ==
    IF m.stack # <<>> THEN siglongjmp([m EXCEPT !.stack = <<m.stack[1]>>], c)
    ELSE __except_unhandled(m, hk)

\* The end of __except_throw: jump to the top scope, or the chain has ended.
ThrowTransfer(m, hk, c) ==
    IF m.stack # <<>> THEN siglongjmp(m, c) ELSE __except_unhandled(m, hk)

\* A throw that records the payload and not the type.
__except_throw_notag(m, hk, id, exception_size, exception, c) ==
    LET m1 == IF id # NULL
              THEN [m EXCEPT !.exc = Memcpy(@, exception, exception_size)]
              ELSE m
    IN  IF hk.on_throw
        THEN PushScope(m1, EngineClauses, "on_throw")
        ELSE ThrowTransfer(m1, hk, c)

\* A throw that calls the hook for a new exception only, not on a re-entry.
__except_throw_newonly(m, hk, id, exception_size, exception, c) ==
    LET m1 == IF id # NULL
              THEN [m EXCEPT !.exc = Memcpy(@, exception, exception_size), !.id = id]
              ELSE m
    IN  IF hk.on_throw /\ id # NULL
        THEN PushScope(m1, EngineClauses, "on_throw")
        ELSE ThrowTransfer(m1, hk, c)

__except_throw(m, hk, id, exception_size, exception, c) ==
    LET m1 == IF id # NULL
              THEN [m EXCEPT !.exc = Memcpy(@, exception, exception_size), !.id = id]
              ELSE m
    IN  IF hk.on_throw
        THEN PushScope(m1, EngineClauses, "on_throw")
        ELSE ThrowTransfer(m1, hk, c)

\* What follows a try block whose loop has ended: the enclosing user code, or
\* the rest of the engine function the block is written in.
AfterScope(m, hk, owner, c) ==
    CASE owner = "user" -> [m EXCEPT !.pc = "body"]
      [] owner = "on_throw" -> ThrowTransfer(m, hk, c)
      [] OTHER -> thrd_exit(m, EXIT_FAILURE)

\* A chain whose finally clause is taken as soon as the loop is past the try
\* stage, where it is declared.
ClauseTaken_declared(f, cur, i) ==
    LET cl == f.clauses[i]
    IN  CASE cl = "finally" -> f.stage \in {__EXCEPT_STAGE_CATCH, __EXCEPT_STAGE_FINALLY}
          [] cl = "catch_any" -> f.stage = __EXCEPT_STAGE_CATCH /\ f.error # 0
          [] OTHER -> /\ f.stage = __EXCEPT_STAGE_CATCH
                      /\ f.error # 0
                      /\ __except_personality(cur, cl)

\* One clause of the else-if chain, at index i of the declared order.
ClauseTaken(f, cur, i) ==
    LET cl == f.clauses[i]
    IN  CASE cl = "finally" -> f.stage = __EXCEPT_STAGE_FINALLY
          [] cl = "catch_any" -> f.stage = __EXCEPT_STAGE_CATCH /\ f.error # 0
          [] OTHER -> /\ f.stage = __EXCEPT_STAGE_CATCH
                      /\ f.error # 0
                      /\ __except_personality(cur, cl)

\* A chain that takes the last clause whose condition holds.
FirstTaken_last(f, cur) ==
    LET S == {i \in 1 .. Len(f.clauses) : ClauseTaken(f, cur, i)}
    IN  IF S = {} THEN 0 ELSE CHOOSE i \in S : \A j \in S : i >= j

\* The first clause of the chain whose condition holds, or 0.
FirstTaken(f, cur) ==
    LET S == {i \in 1 .. Len(f.clauses) : ClauseTaken(f, cur, i)}
    IN  IF S = {} THEN 0 ELSE CHOOSE i \in S : \A j \in S : i <= j

\* ------------------------------------------------------------ the actions

Running(t) == proc = "running" /\ thrd_status[t] = "running"

InUserCode(t) ==
    /\ pc[t] = "body"
    /\ IF stack[t] = <<>> THEN TRUE ELSE Top(stack[t]).owner = "user"

InHook(t) ==
    /\ pc[t] = "body"
    /\ stack[t] # <<>>
    /\ Top(stack[t]).owner # "user"
    /\ Top(stack[t]).body = "try"

HooksUnchanged == UNCHANGED <<except_on_throw, except_on_unhandled, except_on_unexpected>>
GlobalsUnchanged ==
    HooksUnchanged /\ UNCHANGED <<disposition, sigcatch, handled, frames, ran, dstate, proc, runtime, budget>>

\* The code a statement is written in: outside any try block, in a hook, or in
\* the try, catch or finally body of the innermost block.
Where(s) ==
    IF s = <<>> THEN "top"
    ELSE IF Top(s).owner # "user" THEN "hook"
    ELSE Top(s).body

\* try { : user code opens a try block written with the clauses cl.
EnterTry(t, cl) ==
    /\ Running(t)
    /\ InUserCode(t)
    /\ budget[t].tries > 0
    /\ budget' = [budget EXCEPT ![t].tries = @ - 1]
    /\ Commit(t, PushScope(Local(t), cl, "user"))
    /\ UNCHANGED <<except_on_throw, except_on_unhandled, except_on_unexpected,
                   disposition, sigcatch, handled, frames, ran, dstate, proc, runtime>>

\* throw(T, v) in user code or in a hook.
Throw(t, T, v, c) ==
    /\ Running(t)
    /\ InUserCode(t) \/ InHook(t)
    /\ budget[t].throws > 0
    /\ budget' = [budget EXCEPT ![t].throws = @ - 1]
    /\ LET fl == [id |-> T, val |-> v, via |-> "throw", pure |-> TRUE,
                  from |-> Where(stack[t])]
           k == IF InHook(t)
                THEN [calls[t] EXCEPT ![Top(stack[t]).owner].raised = @ + 1]
                ELSE calls[t]
           m == [Local(t) EXCEPT !.flight = fl, !.calls = k,
                                 !.toplevel = IF stack[t] = <<>> THEN fl ELSE @]
       IN  Commit(t, __except_throw(m, Hooks, T, SizeOf(T), v, c))
    /\ HooksUnchanged
    /\ UNCHANGED <<disposition, sigcatch, handled, frames, ran, dstate, proc, runtime>>

\* rethrow() in a catch body: break leaves the clause's loop before its
\* __except_error = 0; the loops then step the stage to FINALLY.
Rethrow(t) ==
    /\ Running(t)
    /\ InUserCode(t)
    /\ stack[t] # <<>>
    /\ Top(stack[t]).body = "catch"
    /\ LET m == Local(t)
           f == Top(m.stack)
           g == [f EXCEPT !.stage = __EXCEPT_STAGE_CATCH + 1, !.body = "none",
                          !.var = <<>>, !.caught = NoCatch,
                          !.recv = [id |-> f.caught.id, val |-> f.caught.exc,
                                    via |-> "rethrow", pure |-> FALSE,
                                    from |-> "catch"]]
       IN  Commit(t, [m EXCEPT !.stack = SetTop(@, g), !.pc = "loop"])
    /\ GlobalsUnchanged

\* A body runs to its closing brace (a hook returns): the clause's loops run
\* their increments and the for loop steps the stage.
EndBody(t) ==
    /\ Running(t)
    /\ pc[t] = "body"
    /\ stack[t] # <<>>
    /\ Top(stack[t]).owner = "user" \/ Top(stack[t]).body = "try"
    /\ LET m == Local(t)
           f == Top(m.stack)
           g == CASE f.body = "try" ->
                       [f EXCEPT !.stage = f.stage + 1, !.body = "none"]
                  [] f.body = "catch" ->
                       [f EXCEPT !.error = 0, !.stage = __EXCEPT_STAGE_CATCH + 1,
                                 !.body = "none", !.var = <<>>, !.caught = NoCatch,
                                 !.recv = NoFlight]
                  [] OTHER ->
                       [f EXCEPT !.stage = __EXCEPT_STAGE_FINALLY + 1, !.body = "none"]
       IN  Commit(t, [m EXCEPT !.stack = SetTop(@, g), !.pc = "loop"])
    /\ GlobalsUnchanged

AtLoop(t) == Running(t) /\ pc[t] = "loop" /\ stack[t] # <<>>

\* stage == PROPAGATE: the scope is unlinked; a pending error is thrown again.
StagePropagate(t, c) ==
    /\ AtLoop(t)
    /\ Top(stack[t]).stage = __EXCEPT_STAGE_PROPAGATE
    /\ LET m == Local(t)
           f == Top(m.stack)
           m1 == [m EXCEPT !.stack = Pop(@)]
           fl == IF f.recv.via = "rethrow" THEN f.recv
                 ELSE [f.recv EXCEPT !.via = "propagate"]
       IN  IF f.error # 0
           THEN Commit(t, __except_throw([m1 EXCEPT !.flight = fl], Hooks, NULL, 0, <<>>, c))
           ELSE Commit(t, AfterScope(m1, Hooks, f.owner, c))
    /\ GlobalsUnchanged

\* stage == UNEXPECTED
StageUnexpected(t) ==
    /\ AtLoop(t)
    /\ Top(stack[t]).stage = __EXCEPT_STAGE_UNEXPECTED
    /\ Commit(t, __except_unexpected(Local(t), Hooks))
    /\ GlobalsUnchanged

\* stage == TRY && error == 0: the try body starts; in the engine's own try
\* blocks the body is the call of the hook.
StageTry(t) ==
    /\ AtLoop(t)
    /\ Top(stack[t]).stage = __EXCEPT_STAGE_TRY
    /\ Top(stack[t]).error = 0
    /\ LET m == Local(t)
           f == Top(m.stack)
           g == [f EXCEPT !.body = "try", !.hist = Append(@, <<"try", 0, NULL>>)]
           k == IF f.owner = "user" THEN m.calls
                ELSE [m.calls EXCEPT ![f.owner] =
                         [@ EXCEPT !.n = @ + 1, !.id = m.id, !.exc = m.exc]]
       IN  Commit(t, [m EXCEPT !.stack = SetTop(@, g), !.pc = "body", !.calls = k])
    /\ GlobalsUnchanged

NotHead(f) ==
    /\ f.stage # __EXCEPT_STAGE_PROPAGATE
    /\ f.stage # __EXCEPT_STAGE_UNEXPECTED
    /\ ~(f.stage = __EXCEPT_STAGE_TRY /\ f.error = 0)

\* A catch, catch_any or finally clause is taken: the first in declared order
\* whose condition holds.  __EXCEPT_UNEXPECTED_LOOP stores -1 in the stage and
\* a catch clause copies the pending exception into its variable.
StageClause(t) ==
    /\ AtLoop(t)
    /\ NotHead(Top(stack[t]))
    /\ FirstTaken(Top(stack[t]), current_id[t]) # 0
    /\ LET m == Local(t)
           f == Top(m.stack)
           i == FirstTaken(f, m.id)
           cl == f.clauses[i]
           g == IF cl = "finally"
                THEN [f EXCEPT !.stage = __EXCEPT_STAGE_UNEXPECTED, !.body = "finally",
                               !.cidx = i, !.hist = Append(@, <<"finally", i, NULL>>),
                               !.fresh = FALSE]
                ELSE [f EXCEPT !.stage = __EXCEPT_STAGE_UNEXPECTED, !.body = "catch",
                               !.cidx = i, !.hist = Append(@, <<"catch", i, m.id>>),
                               !.fresh = FALSE,
                               !.var = IF cl = "catch_any" THEN <<>> ELSE ReadAs(cl, m.exc),
                               !.caught = [id |-> m.id, exc |-> m.exc]]
       IN  Commit(t, [m EXCEPT !.stack = SetTop(@, g), !.pc = "body"])
    /\ GlobalsUnchanged

\* No branch of the chain is taken: the for loop steps the stage.
StageAdvance(t) ==
    /\ AtLoop(t)
    /\ NotHead(Top(stack[t]))
    /\ FirstTaken(Top(stack[t]), current_id[t]) = 0
    /\ LET m == Local(t)
           f == Top(m.stack)
           g == [f EXCEPT !.stage = f.stage + 1,
                          !.nomatch = IF f.stage = __EXCEPT_STAGE_CATCH /\ f.error # 0
                                      THEN m.id ELSE @]
       IN  Commit(t, [m EXCEPT !.stack = SetTop(@, g)])
    /\ GlobalsUnchanged

\* The catch_any bodies of except.c: __except_unexpected(), after resetting the
\* hook in __except_unexpected's own.
HookCatchBody(t) ==
    /\ Running(t)
    /\ pc[t] = "body"
    /\ stack[t] # <<>>
    /\ Top(stack[t]).owner # "user"
    /\ Top(stack[t]).body = "catch"
    /\ LET reset == Top(stack[t]).owner = "on_unexpected"
           hk == IF reset THEN [Hooks EXCEPT !.on_unexpected = FALSE] ELSE Hooks
       IN  /\ except_on_unexpected' = hk.on_unexpected
           /\ Commit(t, __except_unexpected(Local(t), hk))
    /\ UNCHANGED <<except_on_throw, except_on_unhandled, disposition, sigcatch, handled,
                   frames, ran, dstate, proc, runtime, budget>>

\* A handler whose SIGBUS case ends without falling through.
__except_handle_signal_nofall(signal, si_code, si_addr) ==
    CASE signal \notin Signals -> [id |-> "abort", val |-> <<>>]
      [] signal = "SIGFPE" ->
           [id |-> "arithmetic_error_t",
            val |-> <<Msg("Unknown arithmetic exception."), si_addr>>]
      [] signal = "SIGBUS" ->
           [id |-> "misaligned_access_error_t",
            val |-> <<Msg("Invalid address alignment."), si_addr>>]
      [] signal = "SIGILL" /\ si_code = "ILL_BADSTK" ->
           [id |-> "stack_corruption_error_t",
            val |-> <<Msg("Internal stack error."), si_addr>>]
      [] signal = "SIGILL" ->
           [id |-> "illegal_instruction_error_t",
            val |-> <<Msg("Illegal instruction."), si_addr>>]
      [] OTHER ->
           [id |-> "access_violation_t", val |-> <<Msg("Access violation."), si_addr>>]

\* __except_handle_signal: the type and the value it throws for a fault, or
\* abort() for a signal that is none of the four.  A SIGBUS that is not an
\* alignment fault falls through to the SIGSEGV case.
__except_handle_signal(signal, si_code, si_addr) ==
    CASE signal \notin Signals -> [id |-> "abort", val |-> <<>>]
      [] signal = "SIGFPE" ->
           [id |-> "arithmetic_error_t",
            val |-> <<Msg(CASE si_code = "FPE_INTDIV" -> "Integer division by zero."
                            [] si_code = "FPE_INTOVF" -> "Integer overflow."
                            [] si_code = "FPE_FLTDIV" -> "Floating point division by zero."
                            [] si_code = "FPE_FLTOVF" -> "Floating point overflow."
                            [] si_code = "FPE_FLTUND" -> "Floating point underflow."
                            [] si_code = "FPE_FLTRES" -> "Floating point inexact result."
                            [] si_code = "FPE_FLTINV" -> "Invalid floating point operation."
                            [] si_code = "FPE_FLTSUB" -> "Subscript out of range."
                            [] OTHER -> "Unknown arithmetic exception."), si_addr>>]
      [] signal = "SIGBUS" /\ si_code = "BUS_ADRALN" ->
           [id |-> "misaligned_access_error_t",
            val |-> <<Msg("Invalid address alignment."), si_addr>>]
      [] signal = "SIGILL" /\ si_code = "ILL_BADSTK" ->
           [id |-> "stack_corruption_error_t",
            val |-> <<Msg("Internal stack error."), si_addr>>]
      [] signal = "SIGILL" ->
           [id |-> "illegal_instruction_error_t",
            val |-> <<Msg("Illegal instruction."), si_addr>>]
      [] OTHER ->
           [id |-> "access_violation_t", val |-> <<Msg("Access violation."), si_addr>>]

\* except_enable_sigcatch(): sigaction() of the handler for the four signals.
except_enable_sigcatch(t) ==
    /\ Running(t)
    /\ InUserCode(t)
    /\ disposition' = [s \in AllSignals |->
                         IF s \in Signals THEN "handler" ELSE disposition[s]]
    /\ sigcatch' = "enabled"
    /\ UNCHANGED <<stack, pc, current_id, current_exception, sigmask, thrd_status,
                   thrd_code, except_on_throw, except_on_unhandled,
                   except_on_unexpected, handled, cstack, frames, ran, dstate, proc, runtime,
                   diag, calls, flight, toplevel, budget>>

\* A disable that only takes the library's own handler away.
except_disable_sigcatch_own(t) ==
    /\ Running(t)
    /\ InUserCode(t)
    /\ disposition' = [s \in AllSignals |->
                         IF disposition[s] = "handler" THEN "SIG_DFL" ELSE disposition[s]]
    /\ sigcatch' = "disabled"
    /\ UNCHANGED <<stack, pc, current_id, current_exception, sigmask, thrd_status,
                   thrd_code, except_on_throw, except_on_unhandled,
                   except_on_unexpected, handled, cstack, frames, ran, dstate, proc, runtime,
                   diag, calls, flight, toplevel, budget>>

\* except_disable_sigcatch(): signal(SIG_DFL) for the four signals.
except_disable_sigcatch(t) ==
    /\ Running(t)
    /\ InUserCode(t)
    /\ disposition' = [s \in AllSignals |->
                         IF s \in Signals THEN "SIG_DFL" ELSE disposition[s]]
    /\ sigcatch' = "disabled"
    /\ UNCHANGED <<stack, pc, current_id, current_exception, sigmask, thrd_status,
                   thrd_code, except_on_throw, except_on_unhandled,
                   except_on_unexpected, handled, cstack, frames, ran, dstate, proc, runtime,
                   diag, calls, flight, toplevel, budget>>

\* The program sets a signal's disposition itself: signal(s, d).
Sigaction(t, s, d) ==
    /\ Running(t)
    /\ InUserCode(t)
    /\ disposition[s] # d
    /\ disposition' = [disposition EXCEPT ![s] = d]
    /\ sigcatch' = IF s \in Signals THEN "program" ELSE sigcatch
    /\ UNCHANGED <<stack, pc, current_id, current_exception, sigmask, thrd_status,
                   thrd_code, except_on_throw, except_on_unhandled,
                   except_on_unexpected, handled, cstack, frames, ran, dstate, proc, runtime,
                   diag, calls, flight, toplevel, budget>>

\* User code faults.  With the default disposition, with the signal ignored or
\* with it blocked, the fault kills the process; with the library's handler
\* installed the handler runs, the signal added to the thread's mask, and
\* throws.  A fault under a handler of the program's own is not followed.
Fault(t, sig, si_code, si_addr, c) ==
    /\ Running(t)
    /\ InUserCode(t)
    /\ budget[t].throws > 0
    /\ disposition[sig] # "user"
    /\ budget' = [budget EXCEPT ![t].throws = @ - 1]
    /\ IF disposition[sig] # "handler" \/ sig \in sigmask[t]
       THEN /\ proc' = "killed"
            /\ UNCHANGED runtime
            /\ UNCHANGED <<stack, pc, current_id, current_exception, sigmask,
                           thrd_status, thrd_code, diag, calls, flight, toplevel,
                           cstack>>
       ELSE /\ LET e == __except_handle_signal(sig, si_code, si_addr)
                   fl == [id |-> e.id, val |-> e.val, via |-> sig, pure |-> TRUE,
                          from |-> Where(stack[t])]
                   m == [Local(t) EXCEPT !.mask = @ \cup {sig}, !.flight = fl]
               IN  Commit(t, __except_throw(m, Hooks, e.id, SizeOf(e.id), e.val, c))
            /\ UNCHANGED <<proc, runtime>>
    /\ HooksUnchanged
    /\ UNCHANGED <<disposition, sigcatch, handled, frames, ran, dstate>>

\* The kernel calls __except_handle_signal with the signal of `handled`: the
\* handler throws, or aborts the process for a signal that is none of the four.
HandleSignal(t, c) ==
    /\ Running(t)
    /\ InUserCode(t)
    /\ handled.signal # NULL
    /\ handled.out = NULL
    /\ LET e == __except_handle_signal(handled.signal, handled.si_code, handled.si_addr)
       IN  /\ handled' = [handled EXCEPT !.out = e.id]
           /\ IF e.id = "abort"
              THEN /\ proc' = "aborted"
                   /\ UNCHANGED runtime
                   /\ UNCHANGED <<stack, pc, current_id, current_exception, sigmask,
                                  thrd_status, thrd_code, diag, calls, flight, toplevel,
                                  cstack>>
              ELSE /\ LET fl == [id |-> e.id, val |-> e.val, via |-> handled.signal,
                                 pure |-> TRUE, from |-> Where(stack[t])]
                          m == [Local(t) EXCEPT !.mask = @ \cup {handled.signal},
                                                !.flight = fl]
                      IN  Commit(t, __except_throw(m, Hooks, e.id, SizeOf(e.id), e.val, c))
                   /\ UNCHANGED <<proc, runtime>>
    /\ HooksUnchanged
    /\ UNCHANGED <<disposition, sigcatch, budget, frames, ran, dstate>>

NoSignal == [signal |-> NULL, si_code |-> NULL, si_addr |-> 0, out |-> NULL]

\* ------------------------------------------------------------- libdefer

\* The handlers a program defers, and the errors it panics with (never 0).
Handlers == {"fclose", "free"}
PanicCodes == {1, 2}

\* setjmp not called on a frame's context; recover() not yet returned.
NoContext == [site |-> 0, fn |-> 0, depth |-> 0]
NoReturn == [site |-> 0, value |-> 0]

\* What a thread has got from defer() and recover(), the ids for its next
\* function call, deferred argument and recover() call, and what it may still do.
DeferState(ncalls, ndefers, nrecovers, npanics) ==
    [ret |-> 0, recovered |-> NoReturn, fn |-> 1, arg |-> 1, site |-> 1,
     calls |-> ncalls, defers |-> ndefers, recovers |-> nrecovers, panics |-> npanics]

NoDefer == DeferState(0, 0, 0, 0)

\* calloc(1, sizeof(defer_frame_t)): count 0, can_recover false.  sites keeps
\* the recover() calls made in the frame, the latest last.
NewFrame(fn) ==
    [fn |-> fn, entries |-> <<>>, can_recover |-> FALSE, context |-> NoContext,
     sites |-> <<>>]

\* The handlers of a frame as __defer_frame_deregister calls them: the last
\* entry first.
RECURSIVE Cleanups(_, _)
Cleanups(fn, entries) ==
    IF entries = <<>> THEN <<>>
    ELSE <<[fn |-> fn, cleanup |-> Top(entries).cleanup, arg |-> Top(entries).arg]>>
         \o Cleanups(fn, Pop(entries))

\* A deregister that calls the handlers in the order they were registered.
__defer_frame_deregister_fifo(d) ==
    LET self == Top(d.frames)
    IN  [d EXCEPT !.ran = @ \o [i \in 1 .. Len(self.entries) |->
                                  [fn |-> self.fn, cleanup |-> self.entries[i].cleanup,
                                   arg |-> self.entries[i].arg]],
                  !.frames = Pop(@)]

\* __defer_frame_deregister(self) for the current frame: each handler is
\* called, the frame leaves the list.
__defer_frame_deregister(d) ==
    LET self == Top(d.frames)
    IN  [d EXCEPT !.ran = @ \o Cleanups(self.fn, self.entries), !.frames = Pop(@)]

\* An unwind that stops at a recovery point whether recoverable or not.
RECURSIVE __defer_unwind_always(_, _)
__defer_unwind_always(d, recoverable) ==
    IF d.frames = <<>> THEN d
    ELSE IF Top(d.frames).can_recover
         THEN [d EXCEPT !.jump = Top(d.frames).context]
         ELSE __defer_unwind_always(__defer_frame_deregister(d), recoverable)

\* An unwind that deregisters the current frame and no other.
__defer_unwind_one(d, recoverable) ==
    IF d.frames = <<>> THEN d
    ELSE IF Top(d.frames).can_recover /\ recoverable
         THEN [d EXCEPT !.jump = Top(d.frames).context]
         ELSE __defer_frame_deregister(d)

\* An unwind that deregisters the frame it recovers in.
RECURSIVE __defer_unwind_through(_, _)
__defer_unwind_through(d, recoverable) ==
    IF d.frames = <<>> THEN d
    ELSE IF Top(d.frames).can_recover /\ recoverable
         THEN [__defer_frame_deregister(d) EXCEPT !.jump = Top(d.frames).context]
         ELSE __defer_unwind_through(__defer_frame_deregister(d), recoverable)

\* __defer_unwind(error, recoverable): frames are deregistered from the
\* current one outward, until the list is empty or, in a recoverable unwind,
\* the current frame has a recovery point: longjmp to it.
RECURSIVE __defer_unwind(_, _)
__defer_unwind(d, recoverable) ==
    IF d.frames = <<>> THEN d
    ELSE IF Top(d.frames).can_recover /\ recoverable
         THEN [d EXCEPT !.jump = Top(d.frames).context]
         ELSE __defer_unwind(__defer_frame_deregister(d), recoverable)

\* A frame that is full one entry late.
Full_late(frame) == Len(frame.entries) = DEFER_MAX + 1

\* __defer_frame_current->count == DEFER_MAX
Full(frame) == Len(frame.entries) = DEFER_MAX

\* A setjmp on a context whose frame is left unmarked.
setjmp_nomark(frame, ctx) == [frame EXCEPT !.context = ctx]

\* A setjmp that keeps the context a frame already has.
setjmp_first(frame, ctx) ==
    [frame EXCEPT !.can_recover = TRUE,
                  !.context = IF frame.can_recover THEN @ ELSE ctx]

\* setjmp(*__defer_frame_context()): the current frame is marked and its
\* context overwritten with the calling site.
setjmp(frame, ctx) == [frame EXCEPT !.can_recover = TRUE, !.context = ctx]

\* A longjmp that makes setjmp return 1 whatever the value.
longjmp_one(ctx, error) == [site |-> ctx.site, value |-> 1]

\* longjmp(context, error): the setjmp that saved context returns error.
longjmp(ctx, error) == [site |-> ctx.site, value |-> error]

\* The frame list and the handler log of t, no jump taken.
Deferred(t) == [frames |-> frames[t], ran |-> ran[t], jump |-> NoContext]

\* A libdefer whose steps also leave the try blocks of every thread.
ExceptUnchanged_leaving ==
    /\ HooksUnchanged
    /\ stack' = [u \in Threads |-> <<>>]
    /\ UNCHANGED <<current_id, current_exception, sigmask, calls, flight, toplevel,
                   disposition, sigcatch, handled, budget>>

\* What libdefer leaves alone.
ExceptUnchanged ==
    /\ HooksUnchanged
    /\ UNCHANGED <<stack, current_id, current_exception, sigmask, calls, flight, toplevel,
                   disposition, sigcatch, handled, budget>>

\* An instrumented function is entered: __cyg_profile_func_enter allocates a
\* frame and registers it, or aborts when calloc fails.
FuncEnter(t, alloc) ==
    /\ Running(t)
    /\ InUserCode(t)
    /\ dstate[t].calls > 0
    /\ dstate' = [dstate EXCEPT ![t].calls = @ - 1,
                                ![t].fn = IF alloc THEN @ + 1 ELSE @]
    /\ IF alloc
       THEN /\ frames' = [frames EXCEPT ![t] = Append(@, NewFrame(dstate[t].fn))]
            /\ cstack' = [cstack EXCEPT ![t] = Append(@, dstate[t].fn)]
            /\ UNCHANGED <<proc, runtime, diag>>
       ELSE /\ proc' = "aborted"
            /\ UNCHANGED runtime
            /\ diag' = [diag EXCEPT ![t] = Append(@, <<"DEFER_FRAME_ALLOC_FAILURE", NULL>>)]
            /\ UNCHANGED <<frames, cstack>>
    /\ ExceptUnchanged
    /\ UNCHANGED <<ran, pc, thrd_status, thrd_code>>

\* An instrumented function returns, its try blocks closed:
\* __cyg_profile_func_exit deregisters the current frame and frees it.
FuncExit(t) ==
    /\ Running(t)
    /\ InUserCode(t)
    /\ cstack[t] # <<>>
    /\ frames[t] # <<>>
    /\ IF stack[t] = <<>> THEN TRUE ELSE Top(stack[t]).fn < Len(cstack[t])
    /\ LET d == __defer_frame_deregister(Deferred(t))
       IN  /\ frames' = [frames EXCEPT ![t] = d.frames]
           /\ ran' = [ran EXCEPT ![t] = d.ran]
    /\ cstack' = [cstack EXCEPT ![t] = Pop(@)]
    /\ ExceptUnchanged
    /\ UNCHANGED <<dstate, proc, runtime, diag, pc, thrd_status, thrd_code>>

\* defer(cleanup, arg) in a function: the pair is stored in the current frame
\* and arg returned, or the frame is full and the process aborts.
Defer(t, cleanup) ==
    /\ Running(t)
    /\ InUserCode(t)
    /\ cstack[t] # <<>>
    /\ frames[t] # <<>>
    /\ dstate[t].defers > 0
    /\ LET arg == dstate[t].arg
       IN  IF Full(Top(frames[t]))
           THEN /\ proc' = "aborted"
                /\ UNCHANGED runtime
                /\ diag' = [diag EXCEPT ![t] = Append(@, <<"DEFER_FRAME_OVERFLOW", NULL>>)]
                /\ dstate' = [dstate EXCEPT ![t].defers = @ - 1]
                /\ UNCHANGED frames
           ELSE /\ frames' = [frames EXCEPT ![t] =
                      SetTop(@, [Top(@) EXCEPT !.entries =
                                   Append(@, [cleanup |-> cleanup, arg |-> arg])])]
                /\ dstate' = [dstate EXCEPT ![t].defers = @ - 1, ![t].arg = @ + 1,
                                            ![t].ret = arg]
                /\ UNCHANGED <<proc, runtime, diag>>
    /\ ExceptUnchanged
    /\ UNCHANGED <<ran, cstack, pc, thrd_status, thrd_code>>

\* recover(), called directly: __defer_frame_context() marks the current
\* frame, setjmp saves the call site in its context and returns 0.
Recover(t) ==
    /\ Running(t)
    /\ InUserCode(t)
    /\ cstack[t] # <<>>
    /\ frames[t] # <<>>
    /\ dstate[t].recovers > 0
    /\ LET site == dstate[t].site
           ctx == [site |-> site, fn |-> Top(cstack[t]), depth |-> Len(cstack[t])]
       IN  /\ frames' = [frames EXCEPT ![t] =
                 SetTop(@, [setjmp(Top(@), ctx) EXCEPT !.sites = Append(@, site)])]
           /\ dstate' = [dstate EXCEPT ![t].recovers = @ - 1, ![t].site = @ + 1,
                                       ![t].recovered = [site |-> site, value |-> 0]]
    /\ ExceptUnchanged
    /\ UNCHANGED <<ran, cstack, proc, runtime, diag, pc, thrd_status, thrd_code>>

\* The activation a context was saved in is still executing.
Alive(cs, ctx) == ctx.depth <= Len(cs) /\ cs[ctx.depth] = ctx.fn

\* panic(error): the recoverable unwind, then either the longjmp to the recovery
\* point it found, which makes that recover() return error in its function, or
\* the message and thrd_exit(error).  A longjmp into a function that has
\* returned is undefined, and so is whatever runs next with try blocks of the
\* functions jumped over still linked: neither is followed.
Panic(t, error) ==
    /\ Running(t)
    /\ InUserCode(t)
    /\ dstate[t].panics > 0
    /\ LET d == __defer_unwind(Deferred(t), TRUE)
       IN  /\ frames' = [frames EXCEPT ![t] = d.frames]
           /\ ran' = [ran EXCEPT ![t] = d.ran]
           /\ IF d.jump # NoContext
              THEN IF Alive(cstack[t], d.jump)
                   THEN /\ cstack' = [cstack EXCEPT ![t] = SubSeq(@, 1, d.jump.depth)]
                        /\ dstate' = [dstate EXCEPT ![t].panics = @ - 1,
                               ![t].recovered = longjmp(d.jump, error)]
                        /\ pc' = [pc EXCEPT ![t] =
                               IF stack[t] # <<>> /\ Top(stack[t]).fn > d.jump.depth
                               THEN "stale" ELSE @]
                        /\ UNCHANGED <<diag, thrd_status, thrd_code>>
                   ELSE /\ pc' = [pc EXCEPT ![t] = "undefined"]
                        /\ dstate' = [dstate EXCEPT ![t].panics = @ - 1]
                        /\ UNCHANGED <<cstack, diag, thrd_status, thrd_code>>
              ELSE /\ diag' = [diag EXCEPT ![t] = Append(@, <<"Panic with error", NULL>>)]
                   /\ thrd_status' = [thrd_status EXCEPT ![t] = "exited"]
                   /\ thrd_code' = [thrd_code EXCEPT ![t] = error]
                   /\ pc' = [pc EXCEPT ![t] = "exit"]
                   /\ dstate' = [dstate EXCEPT ![t].panics = @ - 1]
                   /\ UNCHANGED cstack
    /\ ExceptUnchanged
    /\ UNCHANGED <<proc, runtime>>

\* exit() in a thread of a program whose main called defer_thrd_init():
\* __defer_thrd_fini, registered with atexit, runs the non-recoverable unwind
\* in the calling thread, and the process ends.
Exit(t) ==
    /\ Running(t)
    /\ InUserCode(t)
    /\ LET d == __defer_unwind(Deferred(t), FALSE)
       IN  /\ frames' = [frames EXCEPT ![t] = d.frames]
           /\ ran' = [ran EXCEPT ![t] = d.ran]
    /\ proc' = "exited"
    /\ UNCHANGED runtime
    /\ ExceptUnchanged
    /\ UNCHANGED <<dstate, cstack, diag, pc, thrd_status, thrd_code>>

\* The threads that call defer_thrd_init().
Callers == 1 .. InitCallers

\* What the two engines hold.
CoreUnchanged ==
    /\ HooksUnchanged
    /\ UNCHANGED <<stack, pc, current_id, current_exception, sigmask, thrd_status,
                   thrd_code, disposition, sigcatch, handled, cstack, frames, ran,
                   dstate, diag, calls, flight, toplevel, budget>>

\* What the two engines and the thread objects hold.
EnginesUnchanged ==
    /\ CoreUnchanged
    /\ UNCHANGED <<thrd_state, lock, signals, handler, op, vec, xs, popped>>

\* A call_once that lets a caller through while the function still runs.
call_once_nowait(flag) ==
    IF flag = "init" THEN "once" ELSE "tss"

\* call_once(&__defer_once_flag, __defer_one_time_init): the first caller runs
\* the function; a caller that finds it running waits until it has completed;
\* a caller that finds it completed goes on.
call_once(flag) ==
    CASE flag = "init" -> "once"
      [] flag = "done" -> "tss"
      [] OTHER -> "wait"

\* Caller c enters defer_thrd_init() and reaches call_once.
DeferThrdInit(c) ==
    /\ proc = "running"
    /\ init[c] = "idle"
    /\ init' = [init EXCEPT ![c] = call_once(once_flag)]
    /\ once_flag' = IF call_once(once_flag) = "once" THEN "running" ELSE once_flag
    /\ UNCHANGED <<atexit_handlers, proc>>
    /\ EnginesUnchanged

\* __defer_one_time_init in the caller that call_once chose: atexit registers
\* __defer_thrd_fini and call_once completes, or atexit fails and the process
\* aborts with the message.
OneTimeInit(c, ok) ==
    /\ proc = "running"
    /\ init[c] = "once"
    /\ IF ok
       THEN /\ atexit_handlers' = Append(atexit_handlers, "__defer_thrd_fini")
            /\ once_flag' = "done"
            /\ init' = [init EXCEPT ![c] = "tss"]
            /\ UNCHANGED proc
       ELSE /\ proc' = "aborted"
            /\ init' = [init EXCEPT ![c] = "DEFER_ATEXIT_FAILURE"]
            /\ UNCHANGED <<atexit_handlers, once_flag>>
    /\ EnginesUnchanged

\* call_once returns in a caller that waited: the function has completed.
OnceCompleted(c) ==
    /\ proc = "running"
    /\ init[c] = "wait"
    /\ once_flag = "done"
    /\ init' = [init EXCEPT ![c] = "tss"]
    /\ UNCHANGED <<once_flag, atexit_handlers, proc>>
    /\ EnginesUnchanged

\* The rest of defer_thrd_init(): tss_create and tss_delete of the key, and the
\* return; or tss_create fails and the process aborts with the message.
TssCreate(c, ok) ==
    /\ proc = "running"
    /\ init[c] = "tss"
    /\ IF ok
       THEN /\ init' = [init EXCEPT ![c] = "returned"]
            /\ UNCHANGED proc
       ELSE /\ proc' = "aborted"
            /\ init' = [init EXCEPT ![c] = "DEFER_TSS_FAILURE"]
    /\ UNCHANGED <<once_flag, atexit_handlers>>
    /\ EnginesUnchanged

\* The status codes a program ends its threads with.
ExitCodes == {0, 1}

\* thrd_exit_ps(code): pthread_exit ends the calling thread, and only it.
thrd_exit_ps(t, code) ==
    /\ thrd_status' = [thrd_status EXCEPT ![t] = "exited"]
    /\ thrd_code' = [thrd_code EXCEPT ![t] = code]
    /\ pc' = [pc EXCEPT ![t] = "exit"]

\* thrd_exit(code) of the thread library, in user code of thread t.  In the
\* thread whose entry is main it goes straight to thrd_exit_ps; in any other
\* thread the state becomes THRD_STATE_EXITED first.  The unwind of the deferred
\* handlers is a TODO comment: the cleanup frames are left as they are.
ThrdExit(t, code) ==
    /\ Running(t)
    /\ InUserCode(t)
    /\ thrd_state' = IF t = MainThread THEN thrd_state
                     ELSE [thrd_state EXCEPT ![t] = "THRD_STATE_EXITED"]
    /\ thrd_exit_ps(t, code)
    /\ ExceptUnchanged
    /\ t = Target => lock = "free"
    /\ UNCHANGED <<frames, ran, dstate, cstack, diag, proc, once_flag, atexit_handlers, init,
                   lock, signals, handler, op, vec, xs, popped>>

\* A controller between calls.
NoOp == [fn |-> NULL, at |-> "idle", calls |-> 0, sent |-> 0, seen |-> NULL,
         before |-> NULL, error |-> 0]

\* The signal of a call, and the state that ends its wait.
SignalOf(fn) == IF fn = "thrd_suspend" THEN "suspend" ELSE "resume"

\* A wait that ends at the first wake-up, whatever the state.
LoopDone_once(fn, state) == TRUE

\* while (self->state != THRD_STATE_SUSPENDED) in thrd_suspend and
\* while (self->state == THRD_STATE_SUSPENDED) in thrd_resume, negated.
LoopDone(fn, state) ==
    IF fn = "thrd_suspend" THEN state = "THRD_STATE_SUSPENDED"
    ELSE state # "THRD_STATE_SUSPENDED"

\* The EBUSY test of the two functions.
Busy(fn, state) ==
    IF fn = "thrd_suspend" THEN state = "THRD_STATE_SUSPENDED"
    ELSE state # "THRD_STATE_SUSPENDED"

\* lprt_unlock(self) by holder c.
lprt_unlock(l, c) == IF l = c THEN "free" ELSE l

\* The end of a scope that has deferred lprt_unlock(self), by return or by
\* lprt_panic: the deferred handler is called.
ScopeExit(l, c) == lprt_unlock(l, c)

\* lprt_lock(self) at the start of thrd_suspend(self) or thrd_resume(self).
ThrdLock(c, fn) ==
    /\ proc = "running"
    /\ op[c].at \in {"idle", "returned"}
    /\ op[c].calls < SuspendOps
    /\ lock = "free"
    /\ lock' = c
    /\ op' = [op EXCEPT ![c] = [NoOp EXCEPT !.fn = fn, !.at = "locked",
                                            !.calls = op[c].calls + 1]]
    /\ UNCHANGED <<thrd_state, signals, handler>>
    /\ UNCHANGED <<proc, once_flag, atexit_handlers, init, vec, xs, popped>>
    /\ CoreUnchanged

\* The rest of the function up to its first wait: lprt_panic(EBUSY), which
\* leaves the scope, or pthread_kill and lprt_wait(self), which gives the lock
\* up while the caller waits.
ThrdSignal(c) ==
    /\ proc = "running"
    /\ op[c].at = "locked"
    /\ IF Busy(op[c].fn, thrd_state[Target])
       THEN /\ op' = [op EXCEPT ![c].at = "panicked", ![c].error = EBUSY]
            /\ lock' = ScopeExit(lock, c)
            /\ UNCHANGED signals
       ELSE /\ signals' = [signals EXCEPT ![SignalOf(op[c].fn)] = @ + 1]
            /\ op' = [op EXCEPT ![c].at = "waiting", ![c].sent = @ + 1]
            /\ lock' = lprt_unlock(lock, c)
    /\ UNCHANGED <<thrd_state, handler>>
    /\ UNCHANGED <<proc, once_flag, atexit_handlers, init, vec, xs, popped>>
    /\ CoreUnchanged

\* lprt_wait returns with the lock held and the loop ends: the function
\* returns, seeing the state it sees, and its scope ends.
ThrdReturn(c) ==
    /\ proc = "running"
    /\ op[c].at = "waiting"
    /\ lock = "free"
    /\ LoopDone(op[c].fn, thrd_state[Target])
    /\ op' = [op EXCEPT ![c].at = "returned", ![c].seen = thrd_state[Target],
                        ![c].before = handler.prev]
    /\ lock' = ScopeExit(c, c)
    /\ UNCHANGED <<thrd_state, signals, handler>>
    /\ UNCHANGED <<proc, once_flag, atexit_handlers, init, vec, xs, popped>>
    /\ CoreUnchanged

\* The suspend signal reaches the target in user code: handle_suspend_resume
\* saves the state, sets THRD_STATE_SUSPENDED under the lock and calls sigwait.
HandleSuspend ==
    /\ Running(Target)
    /\ handler.at = "user"
    /\ signals.suspend > 0
    /\ lock = "free"
    /\ signals' = [signals EXCEPT !.suspend = @ - 1]
    /\ handler' = [handler EXCEPT !.at = "sigwait", !.prev = thrd_state[Target]]
    /\ thrd_state' = [thrd_state EXCEPT ![Target] = "THRD_STATE_SUSPENDED"]
    /\ UNCHANGED <<lock, op>>
    /\ UNCHANGED <<proc, once_flag, atexit_handlers, init, vec, xs, popped>>
    /\ CoreUnchanged

\* The resume signal reaches the target outside sigwait, in user code or in
\* the handler before its sigwait: handle_suspend_resume returns at once.
HandleResume ==
    /\ Running(Target)
    /\ signals.resume > 0
    /\ signals' = [signals EXCEPT !.resume = @ - 1]
    /\ UNCHANGED <<thrd_state, lock, handler, op>>
    /\ UNCHANGED <<proc, once_flag, atexit_handlers, init, vec, xs, popped>>
    /\ CoreUnchanged

\* sigwait returns in the handler and the saved state is restored under the
\* lock.  The set sigwait is given is an uninitialized sigset_t with the resume
\* signal added: it returns for the resume signal, and for a pending suspend
\* signal when the bits it started with hold that signal (garbage).
SigwaitReturns(garbage) ==
    /\ Running(Target)
    /\ handler.at = "sigwait"
    /\ lock = "free"
    /\ IF signals.resume > 0
       THEN signals' = [signals EXCEPT !.resume = @ - 1]
       ELSE /\ garbage
            /\ signals.suspend > 0
            /\ signals' = [signals EXCEPT !.suspend = @ - 1]
    /\ handler' = [handler EXCEPT !.at = "user"]
    /\ thrd_state' = [thrd_state EXCEPT ![Target] = handler.prev]
    /\ UNCHANGED <<lock, op>>
    /\ UNCHANGED <<proc, once_flag, atexit_handlers, init, vec, xs, popped>>
    /\ CoreUnchanged

\* thrd_sleep in the target: THRD_STATE_SLEEPING under the lock, and
\* THRD_STATE_RUNNING under the lock when nanosleep is over.
ThrdSleep ==
    /\ Running(Target)
    /\ handler.at = "user"
    /\ lock = "free"
    /\ \/ /\ thrd_state[Target] = "THRD_STATE_RUNNING"
          /\ handler.sleeps < SleepOps
          /\ handler' = [handler EXCEPT !.sleeps = @ + 1]
          /\ thrd_state' = [thrd_state EXCEPT ![Target] = "THRD_STATE_SLEEPING"]
       \/ /\ thrd_state[Target] = "THRD_STATE_SLEEPING"
          /\ thrd_state' = [thrd_state EXCEPT ![Target] = "THRD_STATE_RUNNING"]
          /\ UNCHANGED handler
    /\ UNCHANGED <<lock, op, signals>>
    /\ UNCHANGED <<proc, once_flag, atexit_handlers, init, vec, xs, popped>>
    /\ CoreUnchanged

\* ------------------------------------------------------------------ vec

\* The values a program pushes.
VecValues == {0, 1}

\* What a cell holds before it is written: no value a program pushes.
Unwritten == -1

\* _vec_create(self, elem_size, capacity) when malloc succeeds: room for
\* VEC_DEFAULT_CAP elements after the header, cap as asked or the default.
_vec_create(elem_size, capacity) ==
    [cap |-> IF capacity = 0 THEN VEC_DEFAULT_CAP ELSE capacity,
     size |-> 0,
     elem_size |-> elem_size,
     cells |-> [i \in 1 .. VEC_DEFAULT_CAP |-> Unwritten]]

\* realloc(vec, sizeof(struct _vec_header) + n * elem_size): the header and the
\* cells that fit are kept.
realloc(v, n) ==
    [v EXCEPT !.cells = [i \in 1 .. n |-> IF i <= Len(v.cells) THEN v.cells[i]
                                          ELSE Unwritten]]

\* The capacity vec_reserve grows to: cap doubled until it exceeds desired_size.
RECURSIVE GrownCap(_, _)
GrownCap(desired_size, new_cap) ==
    IF desired_size >= new_cap THEN GrownCap(desired_size, new_cap * 2) ELSE new_cap

\* A reserve that allocates the grown block without copying the old cells.
vec_reserve_fresh(v, elem_count, ok) ==
    LET desired_size == v.size + elem_count
    IN  IF desired_size < v.cap THEN [result |-> 0, vec |-> v]
        ELSE IF ~ok THEN [result |-> ENOMEM, vec |-> v]
        ELSE [result |-> 0,
              vec |-> [v EXCEPT !.cap = GrownCap(desired_size, v.cap),
                                !.cells = [i \in 1 .. GrownCap(desired_size, v.cap) |-> Unwritten]]]

\* vec_reserve(self, elem_count): nothing to do while size + elem_count is
\* below cap; else the block is reallocated at the grown capacity, or ENOMEM.
vec_reserve(v, elem_count, ok) ==
    LET desired_size == v.size + elem_count
    IN  IF desired_size < v.cap THEN [result |-> 0, vec |-> v]
        ELSE IF ~ok THEN [result |-> ENOMEM, vec |-> v]
        ELSE [result |-> 0,
              vec |-> [realloc(v, GrownCap(desired_size, v.cap)) EXCEPT
                          !.cap = GrownCap(desired_size, v.cap)]]

\* memcpy of the values into the cells from index first (counted from 1) on: a
\* cell past the end of the block is not a cell of the vector.
Written(cells, first, values) ==
    [i \in 1 .. Len(cells) |->
        IF i >= first /\ i < first + Len(values) THEN values[i - first + 1] ELSE cells[i]]

\* What a read of cell i can give: the cell, or anything when i is past the
\* end of the block.
CellValues(v, i) ==
    IF i <= Len(v.cells) THEN {v.cells[i]} ELSE VecValues \cup {Unwritten}

\* A write past the end of the block is undefined: the process is killed, or
\* it goes on with the write landed outside the vector.
Overrun == {"killed", "silent"}

\* vec_cat(&vec, count, array), count being Len(array): vec_reserve(count),
\* then the array is copied to cell size on and size grows by count. ok is
\* whether realloc succeeds if it is called; ub is what an overrun does.
VecCat(array, ok, ub) ==
    /\ proc = "running"
    /\ LET r == vec_reserve(vec, Len(array), ok)
       IN  IF r.result # 0
           THEN /\ popped' = [fn |-> "vec_cat", value |-> r.result]
                /\ UNCHANGED <<vec, xs, proc>>
           ELSE IF r.vec.size + Len(array) > Len(r.vec.cells) /\ ub = "killed"
           THEN /\ proc' = "killed"
                /\ vec' = r.vec
                /\ UNCHANGED <<xs, popped>>
           ELSE /\ vec' = [r.vec EXCEPT !.cells = Written(r.vec.cells, r.vec.size + 1, array),
                                        !.size = @ + Len(array)]
                /\ xs' = xs \o array
                /\ popped' = [fn |-> "vec_cat", value |-> 0]
                /\ UNCHANGED proc
    /\ UNCHANGED <<once_flag, atexit_handlers, init, thrd_state, lock, signals,
                   handler, op>>
    /\ CoreUnchanged

\* vec_push(&vec, &value); ok is whether realloc succeeds if it is called.
VecPush(value, ok) ==
    /\ proc = "running"
    /\ Len(xs) < VecPushes
    /\ LET r == vec_reserve(vec, 1, ok)
       IN  IF r.result # 0
           THEN /\ popped' = [fn |-> "vec_push", value |-> r.result]
                /\ UNCHANGED <<vec, xs, proc>>
           ELSE \E ub \in Overrun :
                   IF r.vec.size + 1 > Len(r.vec.cells) /\ ub = "killed"
                   THEN /\ proc' = "killed"
                        /\ vec' = r.vec
                        /\ UNCHANGED <<xs, popped>>
                   ELSE /\ vec' = [r.vec EXCEPT
                                      !.cells = Written(r.vec.cells, r.vec.size + 1, <<value>>),
                                      !.size = @ + 1]
                        /\ xs' = Append(xs, value)
                        /\ popped' = [fn |-> "vec_push", value |-> 0]
                        /\ UNCHANGED proc
    /\ UNCHANGED <<once_flag, atexit_handlers, init, thrd_state, lock, signals,
                   handler, op>>
    /\ CoreUnchanged

\* vec_pop(&vec): abort() on an empty vector, else the size goes down by one
\* and the element at the new size is the value.
VecPop ==
    /\ proc = "running"
    /\ IF vec.size = 0
       THEN /\ proc' = "aborted"
            /\ UNCHANGED <<vec, xs, popped>>
       ELSE /\ vec' = [vec EXCEPT !.size = @ - 1]
            /\ \E value \in CellValues(vec, vec.size) :
                  popped' = [fn |-> "vec_pop", value |-> value]
            /\ xs' = SubSeq(xs, 1, Len(xs) - 1)
            /\ UNCHANGED proc
    /\ UNCHANGED <<once_flag, atexit_handlers, init, thrd_state, lock, signals,
                   handler, op>>
    /\ CoreUnchanged

\* The capacities a program asks vec_create for: the default, less and more.
Capacities == {0, 1, 10}

\* vec_create(&vec, capacity) for a vector of ints; ok is whether malloc
\* succeeds.
VecCreate(capacity, ok) ==
    /\ proc = "running"
    /\ IF ok
       THEN /\ vec' = _vec_create(4, capacity)
            /\ xs' = <<>>
            /\ popped' = [fn |-> "vec_create", value |-> 0]
       ELSE /\ popped' = [fn |-> "vec_create", value |-> ENOMEM]
            /\ UNCHANGED <<vec, xs>>
    /\ UNCHANGED <<proc, once_flag, atexit_handlers, init, thrd_state, lock, signals,
                   handler, op>>
    /\ CoreUnchanged

\* vec_reserve(&vec, count).
VecReserve(count, ok) ==
    /\ proc = "running"
    /\ vec' = vec_reserve(vec, count, ok).vec
    /\ popped' = [fn |-> "vec_reserve", value |-> vec_reserve(vec, count, ok).result]
    /\ UNCHANGED <<proc, xs, once_flag, atexit_handlers, init, thrd_state, lock, signals,
                   handler, op>>
    /\ CoreUnchanged

\* vec_pack(&vec): the block is reallocated at size elements, at one when the
\* vector is empty, and cap is what was asked; ENOMEM when realloc fails.
VecPack(ok) ==
    /\ proc = "running"
    /\ LET new_cap == IF vec.size = 0 THEN 1 ELSE vec.size
       IN  IF ok
           THEN /\ vec' = [realloc(vec, new_cap) EXCEPT !.cap = new_cap]
                /\ popped' = [fn |-> "vec_pack", value |-> 0]
           ELSE /\ popped' = [fn |-> "vec_pack", value |-> ENOMEM]
                /\ UNCHANGED vec
    /\ UNCHANGED <<proc, xs, once_flag, atexit_handlers, init, thrd_state, lock, signals,
                   handler, op>>
    /\ CoreUnchanged

\* vec_dup(&vec, &new), the program going on with the new vector: _vec_create
\* with the size as capacity, the size elements copied, the size set.
VecDup(ok, ub) ==
    /\ proc = "running"
    /\ LET new == _vec_create(vec.elem_size, vec.size)
       IN  IF ~ok
           THEN /\ popped' = [fn |-> "vec_dup", value |-> ENOMEM]
                /\ UNCHANGED <<vec, proc>>
           ELSE IF vec.size > Len(new.cells) /\ ub = "killed"
           THEN /\ proc' = "killed"
                /\ UNCHANGED <<vec, popped>>
           ELSE /\ vec' = [new EXCEPT
                              !.cells = Written(new.cells, 1,
                                  [i \in 1 .. vec.size |->
                                      IF i <= Len(vec.cells) THEN vec.cells[i] ELSE Unwritten]),
                              !.size = vec.size]
                /\ popped' = [fn |-> "vec_dup", value |-> 0]
                /\ UNCHANGED proc
    /\ UNCHANGED <<xs, once_flag, atexit_handlers, init, thrd_state, lock, signals,
                   handler, op>>
    /\ CoreUnchanged

\* vec_clear(&vec).
VecClear ==
    /\ proc = "running"
    /\ vec' = [vec EXCEPT !.size = 0]
    /\ xs' = <<>>
    /\ popped' = [fn |-> "vec_clear", value |-> 0]
    /\ UNCHANGED <<proc, once_flag, atexit_handlers, init, thrd_state, lock, signals,
                   handler, op>>
    /\ CoreUnchanged

\* sizeof(**(self)) of the vectors a program makes: char and int.
ElemSizes == {1, 4}

\* The elements of the vector are in the order of the comparison function.
IsSorted(v) == \A i \in 1 .. v.size - 1 : v.cells[i] <= v.cells[i + 1]

\* vec_sort(&vec, cmp_func): qsort over the size elements.
VecSort ==
    /\ proc = "running"
    /\ vec' = [vec EXCEPT !.cells = [i \in 1 .. Len(vec.cells) |->
                   IF i <= vec.size
                   THEN SortSeq(SubSeq(vec.cells, 1, vec.size), LAMBDA a, b : a < b)[i]
                   ELSE vec.cells[i]]]
    /\ xs' = SortSeq(xs, LAMBDA a, b : a < b)
    /\ popped' = [fn |-> "vec_sort", value |-> 0]
    /\ UNCHANGED <<proc, once_flag, atexit_handlers, init, thrd_state, lock, signals,
                   handler, op>>
    /\ CoreUnchanged

\* The pointer difference found - *(void**)self of vec_bsearch: both are void
\* pointers, so it counts bytes.
PointerDiff(v, k) == k * v.elem_size

\* vec_bsearch(&vec, &value, cmp_func) on a sorted vector: bsearch finds no
\* element, or some element that compares equal, the k-th.
VecBsearch(value) ==
    /\ proc = "running"
    /\ IsSorted(vec)
    /\ LET matches == {k \in 0 .. vec.size - 1 : vec.cells[k + 1] = value}
       IN  IF matches = {}
           THEN popped' = [fn |-> "vec_bsearch", value |-> VEC_NOT_FOUND]
           ELSE \E k \in matches :
                   popped' = [fn |-> "vec_bsearch", value |-> PointerDiff(vec, k)]
    /\ UNCHANGED <<proc, vec, xs, once_flag, atexit_handlers, init, thrd_state, lock, signals,
                   handler, op>>
    /\ CoreUnchanged

\* Every thread of the program has called defer_thrd_init().
Initialized ==
    /\ once_flag = "done"
    /\ atexit_handlers = <<"__defer_thrd_fini">>
    /\ init = [c \in Callers |-> "returned"]

InitLocal ==
    /\ stack = [t \in Threads |-> <<>>]
    /\ pc = [t \in Threads |-> "body"]
    /\ current_id = [t \in Threads |-> NULL]
    /\ current_exception = [t \in Threads |-> ZeroBuf]
    /\ sigmask = [t \in Threads |-> {}]
    /\ thrd_status = [t \in Threads |-> "running"]
    /\ thrd_code = [t \in Threads |-> 0]
    /\ disposition = [s \in AllSignals |-> "SIG_DFL"]
    /\ sigcatch = "never"
    /\ proc = "running"
    /\ diag = [t \in Threads |-> <<>>]
    /\ calls = [t \in Threads |-> [h \in HookNames |-> [n |-> 0, raised |-> 0, id |-> NULL, exc |-> <<>>]]]
    /\ flight = [t \in Threads |-> NoFlight]
    /\ toplevel = [t \in Threads |-> NoFlight]
    /\ cstack = [t \in Threads |-> <<>>]
    /\ frames = [t \in Threads |-> <<>>]
    /\ ran = [t \in Threads |-> <<>>]
    /\ thrd_state = [t \in Threads |-> "THRD_STATE_RUNNING"]
    /\ lock = "free"
    /\ signals = [suspend |-> 0, resume |-> 0]
    /\ handler = [at |-> "user", prev |-> "THRD_STATE_RUNNING", sleeps |-> 0]
    /\ op = [c \in Controllers |-> NoOp]
    /\ vec = _vec_create(4, 0)
    /\ xs = <<>>
    /\ popped = [fn |-> NULL, value |-> 0]

\* The hooks are NULL until the program sets them.
Init ==
    /\ InitLocal
    /\ Initialized
    /\ handled = NoSignal
    /\ dstate = [t \in Threads |-> NoDefer]
    /\ budget = [t \in Threads |-> [tries |-> MaxTries, throws |-> MaxThrows]]
    /\ except_on_throw = FALSE
    /\ except_on_unhandled = FALSE
    /\ except_on_unexpected = FALSE

Step(t, lists) ==
    \/ \E cl \in lists : EnterTry(t, cl)
    \/ \E T \in UserTypes : \E v \in ThrowValues(T) : \E c \in ClobberChoices : Throw(t, T, v, c)
    \/ Rethrow(t)
    \/ EndBody(t)
    \/ \E c \in ClobberChoices : StagePropagate(t, c)
    \/ StageUnexpected(t)
    \/ StageTry(t)
    \/ StageClause(t)
    \/ StageAdvance(t)

Next == Step(MainThread, ClauseLists)

Spec == Init /\ [][Next]_vars

\* The same programs, shorter.
InitCatch ==
    /\ InitLocal
    /\ Initialized
    /\ handled = NoSignal
    /\ dstate = [t \in Threads |-> NoDefer]
    /\ budget = [t \in Threads |-> [tries |-> CatchTries, throws |-> CatchThrows]]
    /\ except_on_throw = FALSE
    /\ except_on_unhandled = FALSE
    /\ except_on_unexpected = FALSE

NextCatch == Step(MainThread, ClauseLists)

SpecCatch == InitCatch /\ [][NextCatch]_vars

\* Programs that set any of the hooks on entering main; a hook returns or
\* throws.
InitHooks ==
    /\ InitLocal
    /\ Initialized
    /\ handled = NoSignal
    /\ dstate = [t \in Threads |-> NoDefer]
    /\ budget = [t \in Threads |-> [tries |-> HookTries, throws |-> HookThrows]]
    /\ except_on_throw \in BOOLEAN
    /\ except_on_unhandled \in BOOLEAN
    /\ except_on_unexpected \in BOOLEAN

HookClauseLists == {<<"int", "finally">>}

NextHooks ==
    \/ Step(MainThread, HookClauseLists)
    \/ HookCatchBody(MainThread)

SpecHooks == InitHooks /\ [][NextHooks]_vars

\* Two threads of a program with hooks, both throwing outside every try block.
InitTop ==
    /\ InitLocal
    /\ Initialized
    /\ handled = NoSignal
    /\ dstate = [t \in Threads |-> NoDefer]
    /\ budget = [t \in Threads |->
                   IF t = MainThread THEN [tries |-> 0, throws |-> TopThrows]
                   ELSE [tries |-> 0, throws |-> OtherThrows]]
    /\ except_on_throw \in BOOLEAN
    /\ except_on_unhandled \in BOOLEAN
    /\ except_on_unexpected \in BOOLEAN

NextTop ==
    \E t \in Threads :
        \/ \E v \in ThrowValues("int") : \E c \in ClobberChoices : Throw(t, "int", v, c)
        \/ EndBody(t)
        \/ \E c \in ClobberChoices : StagePropagate(t, c)
        \/ StageTry(t)
        \/ StageClause(t)
        \/ StageAdvance(t)
        \/ HookCatchBody(t)

SpecTop == InitTop /\ [][NextTop]_vars

\* Programs that turn fault translation on and off and run into faults.
InitSig ==
    /\ InitLocal
    /\ Initialized
    /\ handled = NoSignal
    /\ dstate = [t \in Threads |-> NoDefer]
    /\ budget = [t \in Threads |-> [tries |-> SigTries, throws |-> SigThrows]]
    /\ except_on_throw = FALSE
    /\ except_on_unhandled = FALSE
    /\ except_on_unexpected = FALSE

NextSig ==
    \/ \E cl \in SigClauseLists : EnterTry(MainThread, cl)
    \/ \E f \in Faults : \E c \in ClobberChoices : Fault(MainThread, f[1], f[2], f[3], c)
    \/ except_enable_sigcatch(MainThread)
    \/ except_disable_sigcatch(MainThread)
    \/ Rethrow(MainThread)
    \/ EndBody(MainThread)
    \/ \E c \in ClobberChoices : StagePropagate(MainThread, c)
    \/ StageUnexpected(MainThread)
    \/ StageTry(MainThread)
    \/ StageClause(MainThread)
    \/ StageAdvance(MainThread)

SpecSig == InitSig /\ [][NextSig]_vars

\* Programs that set dispositions of their own, turn fault translation on and
\* off in any order, and run into a fault.
InitDisp ==
    /\ InitLocal
    /\ Initialized
    /\ handled = NoSignal
    /\ dstate = [t \in Threads |-> NoDefer]
    /\ budget = [t \in Threads |-> [tries |-> 0, throws |-> DispFaults]]
    /\ except_on_throw = FALSE
    /\ except_on_unhandled = FALSE
    /\ except_on_unexpected = FALSE

NextDisp ==
    \/ \E s \in {"SIGFPE", "SIGSEGV", "SIGINT"} : \E d \in ProgramDispositions :
          Sigaction(MainThread, s, d)
    \/ except_enable_sigcatch(MainThread)
    \/ except_disable_sigcatch(MainThread)
    \/ \E f \in Faults : \E c \in ClobberChoices : Fault(MainThread, f[1], f[2], f[3], c)

SpecDisp == InitDisp /\ [][NextDisp]_vars

\* The handler is called once, with any signal and any of its si_code values,
\* in or outside a try block.
InitMap ==
    /\ InitLocal
    /\ Initialized
    /\ handled \in [signal : AllSignals, si_code : SiCodes, si_addr : Byte, out : {NULL}]
    /\ handled.si_code \in CodesOf(handled.signal)
    /\ dstate = [t \in Threads |-> NoDefer]
    /\ budget = [t \in Threads |-> [tries |-> MapTries, throws |-> 0]]
    /\ except_on_throw = FALSE
    /\ except_on_unhandled = FALSE
    /\ except_on_unexpected = FALSE

NextMap ==
    \/ \E cl \in SigClauseLists : EnterTry(MainThread, cl)
    \/ \E c \in ClobberChoices : HandleSignal(MainThread, c)
    \/ EndBody(MainThread)
    \/ \E c \in ClobberChoices : StagePropagate(MainThread, c)
    \/ StageTry(MainThread)
    \/ StageClause(MainThread)
    \/ StageAdvance(MainThread)

SpecMap == InitMap /\ [][NextMap]_vars

\* One thread that calls functions, defers handlers, sets recovery points,
\* panics and ends the process, in any order.
InitDefer ==
    /\ InitLocal
    /\ Initialized
    /\ handled = NoSignal
    /\ dstate = [t \in Threads |->
                   IF t = MainThread
                   THEN DeferState(DeferCalls, DeferDefers, DeferRecovers, DeferPanics)
                   ELSE NoDefer]
    /\ budget = [t \in Threads |-> [tries |-> 0, throws |-> 0]]
    /\ except_on_throw = FALSE
    /\ except_on_unhandled = FALSE
    /\ except_on_unexpected = FALSE

NextDefer ==
    \/ \E alloc \in BOOLEAN : FuncEnter(MainThread, alloc)
    \/ FuncExit(MainThread)
    \/ \E h \in Handlers : Defer(MainThread, h)
    \/ Recover(MainThread)
    \/ \E e \in PanicCodes : Panic(MainThread, e)
    \/ Exit(MainThread)

SpecDefer == InitDefer /\ [][NextDefer]_vars

\* One thread that defers more handlers than a frame holds.
InitOverflow ==
    /\ InitLocal
    /\ Initialized
    /\ handled = NoSignal
    /\ dstate = [t \in Threads |->
                   IF t = MainThread THEN DeferState(OvCalls, OvDefers, 0, 0) ELSE NoDefer]
    /\ budget = [t \in Threads |-> [tries |-> 0, throws |-> 0]]
    /\ except_on_throw = FALSE
    /\ except_on_unhandled = FALSE
    /\ except_on_unexpected = FALSE

NextOverflow ==
    \/ FuncEnter(MainThread, TRUE)
    \/ FuncExit(MainThread)
    \/ Defer(MainThread, "free")

SpecOverflow == InitOverflow /\ [][NextOverflow]_vars

\* One thread that uses both libraries: try blocks and throws in functions
\* that defer handlers, set recovery points and panic.
BothClauseLists == {<<"int", "finally">>}

InitBoth ==
    /\ InitLocal
    /\ Initialized
    /\ handled = NoSignal
    /\ dstate = [t \in Threads |->
                   IF t = MainThread
                   THEN DeferState(BothCalls, BothDefers, BothRecovers, BothPanics)
                   ELSE NoDefer]
    /\ budget = [t \in Threads |->
                   IF t = MainThread THEN [tries |-> BothTries, throws |-> BothThrows]
                   ELSE [tries |-> 0, throws |-> 0]]
    /\ except_on_throw = FALSE
    /\ except_on_unhandled = FALSE
    /\ except_on_unexpected = FALSE

NextBoth ==
    \/ Step(MainThread, BothClauseLists)
    \/ FuncEnter(MainThread, TRUE)
    \/ FuncExit(MainThread)
    \/ \E h \in Handlers : Defer(MainThread, h)
    \/ Recover(MainThread)
    \/ \E e \in PanicCodes : Panic(MainThread, e)

SpecBoth == InitBoth /\ [][NextBoth]_vars

\* Two threads in any interleaving: the main thread runs try blocks, throws
\* and panics; the other one calls functions that defer handlers and set
\* recovery points, panics and throws.  Both throw in try bodies and outside
\* try blocks only.
InitTwo ==
    /\ InitLocal
    /\ Initialized
    /\ handled = NoSignal
    /\ dstate = [t \in Threads |->
                   IF t = MainThread
                   THEN DeferState(0, 0, 0, TwoPanics)
                   ELSE DeferState(PeerCalls, PeerDefers, PeerRecovers, PeerPanics)]
    /\ budget = [t \in Threads |->
                   IF t = MainThread THEN [tries |-> TwoTries, throws |-> TwoThrows]
                   ELSE [tries |-> 0, throws |-> PeerThrows]]
    /\ except_on_throw = FALSE
    /\ except_on_unhandled = FALSE
    /\ except_on_unexpected = FALSE

\* throw(int, v) in a try body or outside every try block, each thread with a
\* value of its own.
ThrowInBody(t) ==
    /\ Where(stack[t]) \in {"top", "try"}
    /\ \E c \in ClobberChoices :
         Throw(t, "int", IF t = MainThread THEN <<1, 1>> ELSE <<0, 1>>, c)

\* panic(error), each thread with an error of its own.
PanicOwn(t) == Panic(t, IF t = MainThread THEN 1 ELSE 2)

NextTwo ==
    \E t \in Threads :
        \/ \E cl \in BothClauseLists : EnterTry(t, cl)
        \/ ThrowInBody(t)
        \/ Rethrow(t)
        \/ EndBody(t)
        \/ \E c \in ClobberChoices : StagePropagate(t, c)
        \/ StageTry(t)
        \/ StageClause(t)
        \/ StageAdvance(t)
        \/ FuncEnter(t, TRUE)
        \/ FuncExit(t)
        \/ Defer(t, "free")
        \/ Recover(t)
        \/ PanicOwn(t)

SpecTwo == InitTwo /\ [][NextTwo]_vars

\* Threads that call defer_thrd_init() at the same time, in a process that has
\* registered nothing yet.
InitOnce ==
    /\ InitLocal
    /\ handled = NoSignal
    /\ dstate = [t \in Threads |-> NoDefer]
    /\ budget = [t \in Threads |-> [tries |-> 0, throws |-> 0]]
    /\ except_on_throw = FALSE
    /\ except_on_unhandled = FALSE
    /\ except_on_unexpected = FALSE
    /\ once_flag = "init"
    /\ atexit_handlers = <<>>
    /\ init = [c \in Callers |-> "idle"]

NextOnce ==
    \E c \in Callers :
        \/ DeferThrdInit(c)
        \/ \E ok \in BOOLEAN : OneTimeInit(c, ok)
        \/ OnceCompleted(c)
        \/ \E ok \in BOOLEAN : TssCreate(c, ok)

SpecOnce == InitOnce /\ [][NextOnce]_vars

\* Try blocks with a finally clause written before a catch clause, in programs
\* whose catch and finally bodies neither throw nor open try blocks.
OrderClauseLists == {<<"finally", "int">>, <<"int", "finally", "char">>}

InitOrder ==
    /\ InitLocal
    /\ Initialized
    /\ handled = NoSignal
    /\ dstate = [t \in Threads |-> NoDefer]
    /\ budget = [t \in Threads |->
                   IF t = MainThread THEN [tries |-> OrderTries, throws |-> OrderThrows]
                   ELSE [tries |-> 0, throws |-> 0]]
    /\ except_on_throw = FALSE
    /\ except_on_unhandled = FALSE
    /\ except_on_unexpected = FALSE

EnterTryInBody(t) ==
    /\ Where(stack[t]) \in {"top", "try"}
    /\ \E cl \in OrderClauseLists : EnterTry(t, cl)

ThrowInTry(t) ==
    /\ Where(stack[t]) = "try"
    /\ \E T \in UserTypes : \E v \in ThrowValues(T) : \E c \in ClobberChoices :
           Throw(t, T, v, c)

NextOrder ==
    \/ EnterTryInBody(MainThread)
    \/ ThrowInTry(MainThread)
    \/ EndBody(MainThread)
    \/ \E c \in ClobberChoices : StagePropagate(MainThread, c)
    \/ StageTry(MainThread)
    \/ StageClause(MainThread)
    \/ StageAdvance(MainThread)

SpecOrder == InitOrder /\ [][NextOrder]_vars

\* Threads that call functions, defer handlers and end with thrd_exit.
InitExit ==
    /\ InitLocal
    /\ Initialized
    /\ handled = NoSignal
    /\ dstate = [t \in Threads |-> DeferState(ExitCalls, ExitDefers, 0, 0)]
    /\ budget = [t \in Threads |-> [tries |-> 0, throws |-> 0]]
    /\ except_on_throw = FALSE
    /\ except_on_unhandled = FALSE
    /\ except_on_unexpected = FALSE

NextExit ==
    \E t \in Threads :
        \/ FuncEnter(t, TRUE)
        \/ FuncExit(t)
        \/ Defer(t, "free")
        \/ \E code \in ExitCodes : ThrdExit(t, code)

SpecExit == InitExit /\ [][NextExit]_vars

\* Two controllers that suspend and resume a thread which sleeps and wakes.
InitSuspend ==
    /\ InitLocal
    /\ Initialized
    /\ handled = NoSignal
    /\ dstate = [t \in Threads |-> NoDefer]
    /\ budget = [t \in Threads |-> [tries |-> 0, throws |-> 0]]
    /\ except_on_throw = FALSE
    /\ except_on_unhandled = FALSE
    /\ except_on_unexpected = FALSE

NextSuspend ==
    \/ \E c \in Controllers :
          \/ \E fn \in {"thrd_suspend", "thrd_resume"} : ThrdLock(c, fn)
          \/ ThrdSignal(c)
          \/ ThrdReturn(c)
    \/ HandleSuspend
    \/ HandleResume
    \/ \E garbage \in BOOLEAN : SigwaitReturns(garbage)
    \/ ThrdSleep

SpecSuspend == InitSuspend /\ [][NextSuspend]_vars

\* A program that pushes values onto the vector vec_create(&vec, 0) made, and
\* then pops.
InitVec ==
    /\ InitLocal
    /\ Initialized
    /\ handled = NoSignal
    /\ dstate = [t \in Threads |-> NoDefer]
    /\ budget = [t \in Threads |-> [tries |-> 0, throws |-> 0]]
    /\ except_on_throw = FALSE
    /\ except_on_unhandled = FALSE
    /\ except_on_unexpected = FALSE

NextVec ==
    \/ \E value \in VecValues : \E ok \in BOOLEAN : VecPush(value, ok)
    \/ VecPop

SpecVec == InitVec /\ [][NextVec]_vars

\* A program that makes a vector of chars or of ints, pushes and sorts, and
\* searches it while it is sorted.
InitSearch ==
    /\ InitLocal
    /\ Initialized
    /\ handled = NoSignal
    /\ dstate = [t \in Threads |-> NoDefer]
    /\ budget = [t \in Threads |-> [tries |-> 0, throws |-> 0]]
    /\ except_on_throw = FALSE
    /\ except_on_unhandled = FALSE
    /\ except_on_unexpected = FALSE

VecCreateOf(elem_size) ==
    /\ proc = "running"
    /\ popped.fn = NULL
    /\ vec' = _vec_create(elem_size, 0)
    /\ popped' = [fn |-> "vec_create", value |-> 0]
    /\ UNCHANGED <<proc, xs, once_flag, atexit_handlers, init, thrd_state, lock, signals,
                   handler, op>>
    /\ CoreUnchanged

NextSearch ==
    \/ \E elem_size \in ElemSizes : VecCreateOf(elem_size)
    \/ \E value \in VecValues : \E ok \in BOOLEAN :
          /\ popped.fn # NULL
          /\ Len(xs) < SearchPushes
          /\ VecPush(value, ok)
    \/ popped.fn # NULL /\ VecSort
    \/ \E value \in VecValues : popped.fn # NULL /\ VecBsearch(value)

SpecSearch == InitSearch /\ [][NextSearch]_vars

\* The arrays a program appends with vec_cat.
CatArrays == {<<>>, <<0, 0>>}

\* A program that creates vectors of ints of any capacity and grows, shrinks,
\* copies and empties them.
InitCap ==
    /\ InitLocal
    /\ Initialized
    /\ handled = NoSignal
    /\ dstate = [t \in Threads |-> NoDefer]
    /\ budget = [t \in Threads |-> [tries |-> 0, throws |-> 0]]
    /\ except_on_throw = FALSE
    /\ except_on_unhandled = FALSE
    /\ except_on_unexpected = FALSE

NextCap ==
    \/ \E capacity \in Capacities : \E ok \in BOOLEAN : VecCreate(capacity, ok)
    \/ \E ok \in BOOLEAN : Len(xs) < CapPushes /\ VecPush(0, ok)
    \/ \E array \in CatArrays : \E ok \in BOOLEAN : \E ub \in Overrun :
          Len(xs) + Len(array) <= CapPushes /\ VecCat(array, ok, ub)
    \/ \E count \in 0 .. CapReserve : \E ok \in BOOLEAN : VecReserve(count, ok)
    \/ \E ok \in BOOLEAN : VecPack(ok)
    \/ \E ok \in BOOLEAN : \E ub \in Overrun : VecDup(ok, ub)
    \/ VecPop
    \/ VecClear

SpecCap == InitCap /\ [][NextCap]_vars

\* A program that has installed an on-throw hook that returns, and throws and
\* rethrows in nested try blocks and outside them.
InitOnThrow ==
    /\ InitLocal
    /\ Initialized
    /\ handled = NoSignal
    /\ dstate = [t \in Threads |-> NoDefer]
    /\ budget = [t \in Threads |->
                   IF t = MainThread THEN [tries |-> OnThrowTries, throws |-> OnThrowThrows]
                   ELSE [tries |-> 0, throws |-> 0]]
    /\ except_on_throw = TRUE
    /\ except_on_unhandled = FALSE
    /\ except_on_unexpected = FALSE

\* throw(T, v) in a try body or outside every try block.
ThrowOutsideClauses(t) ==
    /\ Where(stack[t]) \in {"top", "try"}
    /\ \E T \in UserTypes : \E v \in ThrowValues(T) : \E c \in ClobberChoices :
           Throw(t, T, v, c)

NextOnThrow ==
    \/ EnterTryInBody(MainThread)
    \/ ThrowOutsideClauses(MainThread)
    \/ Rethrow(MainThread)
    \/ EndBody(MainThread)
    \/ \E c \in ClobberChoices : StagePropagate(MainThread, c)
    \/ StageTry(MainThread)
    \/ StageClause(MainThread)
    \/ StageAdvance(MainThread)

SpecOnThrow == InitOnThrow /\ [][NextOnThrow]_vars

\* A program that turns fault translation on and faults in the try bodies of
\* one try block after another.
InitRefault ==
    /\ InitLocal
    /\ Initialized
    /\ handled = NoSignal
    /\ dstate = [t \in Threads |-> NoDefer]
    /\ budget = [t \in Threads |->
                   IF t = MainThread THEN [tries |-> RefaultTries, throws |-> RefaultFaults]
                   ELSE [tries |-> 0, throws |-> 0]]
    /\ except_on_throw = FALSE
    /\ except_on_unhandled = FALSE
    /\ except_on_unexpected = FALSE

\* A fault in a try body.
FaultInTry(t) ==
    /\ Where(stack[t]) = "try"
    /\ \E f \in Faults : \E c \in ClobberChoices : Fault(t, f[1], f[2], f[3], c)

\* except_enable_sigcatch(), called before the first try block.
EnableFirst(t) ==
    /\ sigcatch = "never"
    /\ except_enable_sigcatch(t)

NextRefault ==
    \/ EnableFirst(MainThread)
    \/ \E cl \in SigClauseLists : EnterTry(MainThread, cl)
    \/ FaultInTry(MainThread)
    \/ EndBody(MainThread)
    \/ \E c \in ClobberChoices : StagePropagate(MainThread, c)
    \/ StageTry(MainThread)
    \/ StageClause(MainThread)
    \/ StageAdvance(MainThread)

SpecRefault == InitRefault /\ [][NextRefault]_vars

\* ------------------------------------------------------------- properties

UserScopes(t) == {i \in 1 .. Len(stack[t]) : stack[t][i].owner = "user"}

\* The first catch clause, in declared order, that takes an exception tagged id.
FirstMatch(cl, id) ==
    LET S == {i \in 1 .. Len(cl) : cl[i] = "catch_any" \/ cl[i] = id}
    IN  IF S = {} THEN 0 ELSE CHOOSE i \in S : \A j \in S : i <= j

Count(h, kind) == Cardinality({i \in 1 .. Len(h) : h[i][1] = kind})

\* The block is about to be left: its loop is at the PROPAGATE stage, or the
\* thread has ended with the block still open.
Leaving(t, f) == f.stage = __EXCEPT_STAGE_PROPAGATE \/ thrd_status[t] = "exited"

\* C1: in every try block the bodies run in the order try body, then (only if
\* the try body threw) the body of the first declared catch clause that
\* matches, then the finally body, and none runs twice; a try body that does
\* not throw is followed by the finally body alone.
C1_BodyOrder ==
    \A t \in Threads : \A n \in UserScopes(t) :
        LET f == stack[t][n]
            h == f.hist
        IN  /\ \A i \in 1 .. Len(h) :
                  /\ h[i][1] = "try" => i = 1
                  /\ h[i][1] = "catch" =>
                        i = 2 /\ f.threw /\ h[i][2] = FirstMatch(f.clauses, h[i][3])
                  /\ h[i][1] = "finally" => i = 2 \/ (i = 3 /\ h[2][1] = "catch")
            /\ f.stage = __EXCEPT_STAGE_PROPAGATE =>
                  /\ h[Len(h)][1] = "finally"
                  /\ ~f.threw => Len(h) = 2

\* C2: every try block that is entered runs its finally body exactly once
\* before control leaves the block, on every exception path.
C2_FinallyOnce ==
    \A t \in Threads : \A n \in UserScopes(t) :
        LET f == stack[t][n]
        IN  /\ Count(f.hist, "finally") <= 1
            /\ Leaving(t, f) => Count(f.hist, "finally") = 1

\* C3: a throw(T, v) that reaches a catch(T, e) clause, directly or after
\* propagating out of inner try blocks, binds e to the bytes of v.
C3_CaughtEqualsThrown ==
    \A t \in Threads : \A n \in UserScopes(t) :
        LET f == stack[t][n]
        IN  (/\ f.body = "catch"
             /\ f.clauses[f.cidx] # "catch_any"
             /\ f.recv.pure
             /\ f.recv.id = f.clauses[f.cidx])
            => f.var = f.recv.val

\* C4: rethrow() delivers to the next enclosing try block the type tag and the
\* payload bytes the rethrowing catch clause received.
C4_RethrowPreserves ==
    \A t \in Threads : \A n \in UserScopes(t) :
        LET f == stack[t][n]
        IN  (f.fresh /\ f.recv.via = "rethrow")
            => (current_id[t] = f.recv.id /\ current_exception[t] = f.recv.val)

\* C7: a throw() written directly in a catch or finally body goes to the
\* unexpected handler: the block it lands in resumes at the UNEXPECTED stage,
\* and no catch clause of any block ever takes it.
C7_ThrowInHandlerIsUnexpected ==
    \A t \in Threads : \A n \in UserScopes(t) :
        LET f == stack[t][n]
        IN  f.recv.from \in {"catch", "finally"} /\ f.recv.via # "rethrow" =>
              /\ f.body # "catch"
              /\ f.fresh /\ f.recv.via = "throw" => f.stage = __EXCEPT_STAGE_UNEXPECTED

\* C5: a catch body runs only for the first clause, in declared order, that is
\* catch_any or names the pending type: catch_any runs exactly when no clause
\* before it matches, a catch(T) before catch_any takes a T, a clause after
\* catch_any never runs, and a block passes the exception on only when none
\* of its clauses matches.
C5_CatchAnyOrder ==
    \A t \in Threads : \A n \in UserScopes(t) :
        LET f == stack[t][n]
        IN  /\ f.body = "catch" =>
                  /\ f.clauses[f.cidx] \in {"catch_any", f.caught.id}
                  /\ \A j \in 1 .. f.cidx - 1 : f.clauses[j] \notin {"catch_any", f.caught.id}
            /\ f.nomatch # NULL =>
                  \A j \in 1 .. Len(f.clauses) : f.clauses[j] \notin {"catch_any", f.nomatch}

\* catch_any has taken a char although a catch(char) is declared after it.
C5_Witness ==
    \E t \in Threads : \E n \in UserScopes(t) :
        LET f == stack[t][n]
        IN  /\ f.body = "catch"
            /\ f.clauses[f.cidx] = "catch_any"
            /\ f.caught.id = "char"
            /\ \E j \in f.cidx + 1 .. Len(f.clauses) : f.clauses[j] = "char"
            /\ \E j \in 1 .. f.cidx - 1 : f.clauses[j] = "int"

\* What the unhandled path owes a thread that threw outside every try block
\* and has ended.
UnhandledDone(t) ==
    IF except_on_unhandled
    THEN /\ calls[t]["on_unhandled"].n = 1
         /\ calls[t]["on_unhandled"].id = toplevel[t].id
         /\ ReadAs(toplevel[t].id, calls[t]["on_unhandled"].exc) = toplevel[t].val
    ELSE diag[t] = << <<"Unhandled exception", toplevel[t].id>> >>

Active(t, h) ==
    {i \in 1 .. Len(stack[t]) : stack[t][i].owner = h /\ stack[t][i].body = "try"}

\* C8: a hook that throws does not re-enter the throw algorithm without
\* bound: no hook is called again while an earlier call of it is still
\* running.
C8_NoHookReentry ==
    \A t \in Threads : \A h \in HookNames : Cardinality(Active(t, h)) <= 1

\* C9: once the on-unexpected hook has thrown it has been called exactly
\* once, and the thread ends with except_on_unexpected NULL and the default
\* unexpected diagnostic written last.
C9_UnexpectedHookOnce ==
    \A t \in Threads :
        calls[t]["on_unexpected"].raised > 0 =>
          /\ calls[t]["on_unexpected"].n = 1
          /\ thrd_status[t] = "exited" =>
                /\ ~except_on_unexpected
                /\ diag[t] # <<>>
                /\ diag[t][Len(diag[t])][1] = "Unexpected exception"

\* C10: with fault translation on, a SIGFPE in a try body whose block has a
\* catch(arithmetic_error_t, e) clause resumes that block with the thread and
\* the process alive, runs that clause with e the handler's value, and the
\* block is then left into the code after it; a fault kills the process only
\* under the default disposition.
C10_FaultCaught ==
    /\ [](\A t \in Threads : \A n \in UserScopes(t) :
            LET f == stack[t][n]
                k == FirstMatch(f.clauses, "arithmetic_error_t")
            IN  (/\ f.recv.via = "SIGFPE"
                 /\ f.recv.from = "try"
                 /\ k # 0
                 /\ f.clauses[k] = "arithmetic_error_t")
                => IF f.fresh
                   THEN /\ proc = "running" /\ thrd_status[t] = "running"
                        /\ current_id[t] = "arithmetic_error_t"
                        /\ f.error # 0
                        /\ f.stage \in {__EXCEPT_STAGE_TRY, __EXCEPT_STAGE_CATCH}
                   ELSE /\ f.body = "catch"
                        /\ f.cidx = k
                        /\ f.var = f.recv.val)
    /\ [][\A t \in Threads :
            /\ (/\ AtLoop(t)
                 /\ Top(stack[t]).stage = __EXCEPT_STAGE_PROPAGATE
                 /\ Top(stack[t]).error = 0
                 /\ \E i \in 1 .. Len(Top(stack[t]).hist) :
                       Top(stack[t]).hist[i][3] = "arithmetic_error_t"
                 /\ stack'[t] # stack[t])
                => (/\ stack'[t] = Pop(stack[t])
                    /\ pc'[t] = "body"
                    /\ thrd_status'[t] = "running"
                    /\ proc' = "running")
            /\ (proc = "running" /\ proc' = "killed")
                => \E s \in Signals : disposition[s] = "SIG_DFL"]_vars

\* A SIGFPE from integer division, raised in the try body, is in the body of
\* catch(arithmetic_error_t, e) with e the handler's value.
C10_Witness ==
    \E t \in Threads : \E n \in UserScopes(t) :
        LET f == stack[t][n]
        IN  /\ f.body = "catch"
            /\ f.recv.via = "SIGFPE"
            /\ f.recv.from = "try"
            /\ f.clauses[f.cidx] = "arithmetic_error_t"
            /\ f.var = <<Msg("Integer division by zero."), 1>>
            /\ sigmask[t] = {}

\* C11: after except_disable_sigcatch() the four fault signals have the
\* default disposition, whatever they had before; a fault is then not
\* translated: it kills the process and throws nothing; and neither enable nor
\* disable changes the disposition of another signal.
C11_DisableRestoresDefault ==
    /\ [](sigcatch = "disabled" => \A s \in Signals : disposition[s] = "SIG_DFL")
    /\ [][/\ \A t \in Threads :
                (except_enable_sigcatch(t) \/ except_disable_sigcatch(t)) =>
                  \A s \in OtherSignals : disposition'[s] = disposition[s]
          /\ \A t \in Threads :
                (sigcatch = "disabled" /\ budget'[t].throws < budget[t].throws) =>
                  /\ proc' = "killed"
                  /\ current_id'[t] = current_id[t]
                  /\ thrd_status'[t] = thrd_status[t]
                  /\ stack'[t] = stack[t]]_vars

\* Disable was called though enable never was, with SIGFPE ignored and SIGINT
\* handled by the program before: a SIGFPE then killed the process.
C11_Witness ==
    /\ sigcatch = "disabled"
    /\ disposition["SIGINT"] = "user"
    /\ \A s \in Signals : disposition[s] = "SIG_DFL"
    /\ proc = "killed"
    /\ \A t \in Threads : current_id[t] = NULL

\* The thrown type C12 gives for a signal and its detail code.
FaultTypeOf(signal, si_code) ==
    IF signal = "SIGFPE" THEN "arithmetic_error_t"
    ELSE IF signal = "SIGILL"
         THEN IF si_code = "ILL_BADSTK" THEN "stack_corruption_error_t"
              ELSE "illegal_instruction_error_t"
    ELSE IF signal = "SIGBUS"
         THEN IF si_code = "BUS_ADRALN" THEN "misaligned_access_error_t"
              ELSE "access_violation_t"
    ELSE IF signal = "SIGSEGV" THEN "access_violation_t"
    ELSE "abort"

\* C12: the handler maps every signal and detail code to one thrown type:
\* SIGFPE to arithmetic_error_t, SIGILL to stack_corruption_error_t (bad
\* stack) or illegal_instruction_error_t, SIGBUS to misaligned_access_error_t
\* (bad alignment) or access_violation_t, SIGSEGV to access_violation_t; any
\* other signal aborts the process and throws nothing.
C12_FaultMapping ==
    handled.out # NULL =>
      /\ handled.out = FaultTypeOf(handled.signal, handled.si_code)
      /\ IF handled.signal \in Signals
         THEN current_id[MainThread] = handled.out /\ proc = "running"
         ELSE current_id[MainThread] = NULL /\ proc = "aborted"

\* A SIGBUS that is no alignment fault was thrown as an access_violation_t.
C12_Witness ==
    /\ handled.signal = "SIGBUS"
    /\ handled.si_code = "other"
    /\ handled.out = "access_violation_t"
    /\ current_id[MainThread] = "access_violation_t"

\* ---------------------------------------------------- libdefer properties

\* The handlers of a frame, last registered first.
Reversed(f) ==
    [i \in 1 .. Len(f.entries) |->
       [fn |-> f.fn, cleanup |-> f.entries[Len(f.entries) + 1 - i].cleanup,
        arg |-> f.entries[Len(f.entries) + 1 - i].arg]]

\* The handlers of the frames fs[lo] .. fs[Len(fs)], innermost frame first.
RECURSIVE InnermostFirst(_, _)
InnermostFirst(fs, lo) ==
    IF Len(fs) < lo THEN <<>>
    ELSE Reversed(fs[Len(fs)]) \o InnermostFirst(SubSeq(fs, 1, Len(fs) - 1), lo)

\* The index of the innermost marked frame, or 0.
InnermostMarked(fs) ==
    LET S == {i \in 1 .. Len(fs) : fs[i].can_recover}
    IN  IF S = {} THEN 0 ELSE CHOOSE i \in S : \A j \in S : j <= i

\* How often the handler deferred with arg has run, and is still pending.
TimesRan(t, arg) == Cardinality({i \in 1 .. Len(ran[t]) : ran[t][i].arg = arg})
TimesPending(t, arg) ==
    Cardinality({p \in (1 .. Len(frames[t])) \X (1 .. DEFER_MAX) :
                   /\ p[2] <= Len(frames[t][p[1]].entries)
                   /\ frames[t][p[1]].entries[p[2]].arg = arg})

\* C13: a function scope that exits normally calls each handler deferred in it
\* once, with its own argument, the last deferred first; its frame leaves the
\* cleanup stack, and the enclosing frames keep their handlers, uncalled.  No
\* handler is ever called twice.
C13_ScopeExitRunsDeferred ==
    /\ [](\A t \in Threads : \A arg \in 1 .. DeferDefers + 1 : TimesRan(t, arg) <= 1)
    /\ [][\A t \in Threads : FuncExit(t) =>
             /\ ran'[t] = ran[t] \o Reversed(Top(frames[t]))
             /\ frames'[t] = Pop(frames[t])]_vars

\* The inner of two functions deferred two handlers and returned: the second
\* ran first, each with its own argument; the outer function is still open.
C13_Witness ==
    /\ Len(ran[MainThread]) = 2
    /\ ran[MainThread][1].arg = 2 /\ ran[MainThread][2].arg = 1
    /\ ran[MainThread][1].fn = 2 /\ ran[MainThread][2].fn = 2
    /\ ran[MainThread][1].cleanup # ran[MainThread][2].cleanup
    /\ cstack[MainThread] = <<1>>
    /\ Len(frames[MainThread]) = 1
    /\ dstate[MainThread].panics = DeferPanics
    /\ proc = "running"

\* C14: a frame never holds more than 16 handlers; a defer() into a frame that
\* holds fewer stores the pair, returns its argument and calls no handler; a
\* defer() into a frame that holds 16 aborts the process, stores nothing and
\* calls no handler.
C14_DeferCapacity ==
    /\ [](\A t \in Threads : \A i \in 1 .. Len(frames[t]) :
            Len(frames[t][i].entries) \in 0 .. 16)
    /\ [][\A t \in Threads : dstate'[t].defers < dstate[t].defers =>
             /\ ran'[t] = ran[t]
             /\ IF Len(Top(frames[t]).entries) < 16
                THEN /\ proc' = "running"
                     /\ dstate'[t].ret = dstate[t].arg
                     /\ Len(Top(frames'[t]).entries) = Len(Top(frames[t]).entries) + 1
                     /\ Top(Top(frames'[t]).entries).arg = dstate[t].arg
                     /\ Pop(frames'[t]) = Pop(frames[t])
                ELSE /\ proc' = "aborted"
                     /\ frames'[t] = frames[t]]_vars

\* The 17th defer() of a function aborted the process; its 16 handlers are
\* still registered and none has run.
C14_Witness ==
    /\ proc = "aborted"
    /\ Len(Top(frames[MainThread]).entries) = 16
    /\ dstate[MainThread].ret = 16
    /\ ran[MainThread] = <<>>
    /\ Top(diag[MainThread])[1] = "DEFER_FRAME_OVERFLOW"

\* C15: panic(error) with no open frame marked by recover() calls the pending
\* handlers of every open frame once, innermost frame first and within a frame
\* the last deferred first, leaves the cleanup stack empty, and ends the
\* calling thread, and only it, with status error.
C15_PanicUnwindsAll ==
    [][\A t \in Threads : \A error \in PanicCodes :
         (Panic(t, error) /\ InnermostMarked(frames[t]) = 0) =>
           /\ ran'[t] = ran[t] \o InnermostFirst(frames[t], 1)
           /\ frames'[t] = <<>>
           /\ thrd_status'[t] = "exited"
           /\ thrd_code'[t] = error
           /\ proc' = "running"]_vars

\* A panic(2) in the inner of two functions, each with one handler deferred:
\* the inner handler ran, then the outer one, and the thread ended with 2.
C15_Witness ==
    /\ thrd_status[MainThread] = "exited"
    /\ thrd_code[MainThread] = 2
    /\ Len(ran[MainThread]) = 2
    /\ ran[MainThread][1].fn = 2 /\ ran[MainThread][2].fn = 1
    /\ frames[MainThread] = <<>>
    /\ dstate[MainThread].recovers = DeferRecovers
    /\ Top(diag[MainThread])[1] = "Panic with error"

C20_StacksTrackExecution ==
    \A t \in Threads :
      (proc = "running" /\ thrd_status[t] = "running" /\ pc[t] # "undefined") =>
        /\ stack[t] # <<>> => Top(stack[t]).fn <= Len(cstack[t])
        /\ IF cstack[t] = <<>> THEN frames[t] = <<>>
           ELSE frames[t] # <<>> /\ Top(frames[t]).fn = Top(cstack[t])

\* --------------------------------------------- the record and the threads

\* An exception of t is thrown and not yet consumed: it is on its way to a
\* scope, or a scope of t holds it with its pending flag set.
InFlight(t) ==
    \/ flight[t] # NoFlight
    \/ \E n \in 1 .. Len(stack[t]) : stack[t][n].error # 0

Marked(t) == {i \in 1 .. Len(frames[t]) : frames[t][i].can_recover}

ThreadState(u) ==
    <<stack[u], pc[u], current_id[u], current_exception[u], sigmask[u], thrd_status[u],
      thrd_code[u], flight[u], cstack[u], frames[u], ran[u], dstate[u].recovered>>

\* Thread t takes the step: it is t's throws, panics and calls that are used
\* up, or t's code that moves.
StepOf(t) ==
    \/ budget'[t] # budget[t]
    \/ dstate'[t] # dstate[t]
    \/ pc'[t] # pc[t]
    \/ stack'[t] # stack[t]

\* C23: in every interleaving of two threads, a step of one thread - a throw
\* or a panic and all that follows from it - leaves the other thread where it
\* is, with its pending exception record, its try-scope stack and its
\* cleanup-frame stack unchanged, and calls none of its deferred handlers;
\* the handlers a thread calls are those pending in its own frames.
C23_ThreadsIsolated ==
    [][\A t \in Threads :
         /\ StepOf(t) => \A u \in Threads \ {t} : ThreadState(u)' = ThreadState(u)
         /\ \A i \in Len(ran[t]) + 1 .. Len(ran'[t]) :
              \E n \in 1 .. Len(frames[t]) : \E k \in 1 .. Len(frames[t][n].entries) :
                /\ frames[t][n].fn = ran'[t][i].fn
                /\ frames[t][n].entries[k].arg = ran'[t][i].arg]_vars

\* The main thread has caught its own exception and the other thread, which
\* panicked with a frame marked and a handler pending, has recovered: each
\* thread's record and stacks are its own.
C23_Witness ==
    LET u == CHOOSE u \in Threads : u # MainThread
    IN  /\ current_id[MainThread] = "int"
        /\ current_exception[MainThread] = <<1, 1>>
        /\ stack[MainThread] # <<>>
        /\ Top(stack[MainThread]).body = "catch"
        /\ frames[MainThread] = <<>>
        /\ current_id[u] = NULL
        /\ stack[u] = <<>>
        /\ dstate[u].recovered = [site |-> 1, value |-> 2]
        /\ Len(frames[u]) = 1
        /\ Len(frames[u][1].entries) = 1
        /\ thrd_status[u] = "running" /\ thrd_status[MainThread] = "running"


\* ------------------------------------------------ what ends the process

\* C24: of the failure outcomes of the libraries, only a defer overflow ends
\* the whole process: a process that was aborted or killed wrote the overflow
\* message last; every other failure ends the thread at most.
C24_OnlyOverflowEndsProcess ==
    proc \in {"aborted", "killed"} =>
        \E t \in Threads :
            /\ diag[t] # <<>>
            /\ Top(diag[t])[1] = "DEFER_FRAME_OVERFLOW"


\* A step of the exception engine in thread t: a try block is entered or left,
\* a clause or a stage is passed, or an exception is thrown.
EngineStep(t) ==
    \/ stack'[t] # stack[t]
    \/ budget'[t] # budget[t]
    \/ flight'[t] # flight[t]
    \/ current_id'[t] # current_id[t]
    \/ calls'[t] # calls[t]
    \/ pc'[t] # pc[t] /\ dstate'[t].panics = dstate[t].panics

C26_FinalizerRegisteredOnce ==
    /\ Len(atexit_handlers) <= 1
    /\ (\E c \in Callers : init[c] = "returned") =>
           atexit_handlers = <<"__defer_thrd_fini">>

\* Every caller has returned; the one that found the flag untouched is not the
\* first of them.
C26_Witness ==
    /\ \A c \in Callers : init[c] = "returned"
    /\ atexit_handlers = <<"__defer_thrd_fini">>
    /\ once_flag = "done"


\* ------------------------------------------------- the order of the clauses

\* The positions of the bodies of one kind in the history of a block.
Positions(h, kind) == {i \in 1 .. Len(h) : h[i][1] = kind}

\* C27: wherever the finally clause is written among the catch clauses, an
\* exception thrown in the try body runs the body of the catch clause that
\* matches it first and the finally body second, each once: no finally body
\* starts before the catch body of its block, a finally body that runs after a
\* throw follows the catch body of the first matching clause unless no clause
\* matches, and no block is left before its finally body has run.
C27_CatchBeforeFinally ==
    \A t \in Threads : \A n \in UserScopes(t) :
        LET f == stack[t][n]
            h == f.hist
        IN  /\ Cardinality(Positions(h, "catch")) <= 1
            /\ Cardinality(Positions(h, "finally")) <= 1
            /\ \A i \in Positions(h, "catch") : \A j \in Positions(h, "finally") : i < j
            /\ \A i \in Positions(h, "catch") :
                  f.threw /\ h[i][2] = FirstMatch(f.clauses, h[i][3])
            /\ (f.threw /\ Positions(h, "finally") # {}) =>
                  \/ Positions(h, "catch") # {}
                  \/ f.nomatch # NULL /\ FirstMatch(f.clauses, f.nomatch) = 0
            /\ f.stage = __EXCEPT_STAGE_PROPAGATE => Positions(h, "finally") # {}

\* A block written try / catch (int) / finally / catch (char) is about to be
\* left after a throw of a char: the body of the catch clause declared after
\* the finally clause has run, and the finally body after it.
C27_Witness ==
    \E n \in UserScopes(MainThread) :
        LET f == stack[MainThread][n]
        IN  /\ f.clauses = <<"int", "finally", "char">>
            /\ f.stage = __EXCEPT_STAGE_PROPAGATE
            /\ f.error = 0
            /\ f.hist = << <<"try", 0, NULL>>, <<"catch", 3, "char">>, <<"finally", 2, NULL>> >>


\* ------------------------------------------------------ the thread library

\* C28: a thread that has ended by thrd_exit(code), the main thread included,
\* has had its pending deferred handlers called and has the state
\* THRD_STATE_EXITED; the other threads are as they were.
C28_ExitUnwindsAndMarks ==
    /\ [](\A t \in Threads :
            thrd_status[t] = "exited" =>
               /\ \A n \in 1 .. Len(frames[t]) : frames[t][n].entries = <<>>
               /\ thrd_state[t] = "THRD_STATE_EXITED")
    /\ [][\A t \in Threads : \A code \in ExitCodes :
            ThrdExit(t, code) =>
               \A u \in Threads \ {t} : ThreadState(u)' = ThreadState(u)]_vars


C30_PushPopLifo ==
    /\ [](/\ vec.size = Len(xs)
          /\ \A i \in 1 .. Len(xs) : vec.cells[i] = xs[i])
    /\ [][VecPop =>
            IF Len(xs) = 0
            THEN proc' = "aborted" /\ popped' = popped
            ELSE /\ popped' = [fn |-> "vec_pop", value |-> xs[Len(xs)]]
                 /\ vec'.size = Len(xs) - 1
                 /\ xs' = SubSeq(xs, 1, Len(xs) - 1)
                 /\ proc' = proc]_vars

\* More values than the initial capacity were pushed, all were popped, and one
\* more vec_pop aborted the process.
C30_Witness ==
    /\ proc = "aborted"
    /\ vec.size = 0
    /\ popped.fn = "vec_pop"
    /\ Len(vec.cells) > VEC_DEFAULT_CAP
    /\ vec.cells[VEC_DEFAULT_CAP + 1] # Unwritten

\* C31: on a sorted vector of any element size, vec_bsearch returns the index
\* of an element that equals the searched value, or VEC_NOT_FOUND when no
\* element equals it.
C31_BsearchReturnsIndex ==
    [][\A value \in VecValues :
          VecBsearch(value) =>
             IF \E i \in 1 .. vec.size : vec.cells[i] = value
             THEN /\ popped'.value \in 0 .. vec.size - 1
                  /\ vec.cells[popped'.value + 1] = value
             ELSE popped'.value = VEC_NOT_FOUND]_vars

\* C32: whatever the program did with the vector, vec_size is at most vec_cap
\* and vec_cap is at most the number of element slots allocated.
C32_CapWithinAllocation ==
    /\ vec.size <= vec.cap
    /\ vec.cap <= Len(vec.cells)

\* t enters a try block in this step.
EntersTry(t) == budget'[t].tries < budget[t].tries

\* t's innermost block is at stage PROPAGATE and t takes the step that leaves it.
LeavesTry(t) ==
    /\ pc[t] = "loop"
    /\ stack[t] # <<>>
    /\ Top(stack[t]).stage = __EXCEPT_STAGE_PROPAGATE
    /\ stack'[t] # stack[t]

\* C33: entering a try block pushes its scope on top of the scopes that were
\* there, which stay as they were; a block that finishes with no exception
\* pending (it threw nothing, or a catch clause consumed the exception) leaves
\* exactly the scopes that were there at its entry; and the depth of the stack
\* goes up by one with every block entered, down by one with every block left
\* and changes in no other step, so that it is the number of blocks executing.
C33_ScopeStackFollowsBlocks ==
    [][\A t \in Threads :
          LET n == Len(stack[t])
          IN  /\ EntersTry(t) =>
                    /\ Len(stack'[t]) = n + 1
                    /\ SubSeq(stack'[t], 1, n) = stack[t]
                    /\ stack'[t][n + 1].stage = __EXCEPT_STAGE_TRY
              /\ (LeavesTry(t) /\ Top(stack[t]).error = 0) =>
                    stack'[t] = SubSeq(stack[t], 1, n - 1)
              /\ Len(stack'[t]) - n = (IF EntersTry(t) THEN 1 ELSE 0)
                                      - (IF LeavesTry(t) THEN 1 ELSE 0)
              /\ \A i \in 1 .. n - 1 :
                    (i <= Len(stack'[t]) /\ (i < n - 1 \/ ~LeavesTry(t))) =>
                       stack'[t][i] = stack[t][i]]_vars

\* Two try blocks were entered, a throw was made and a catch clause consumed
\* it, one block has finished since, and the other is in its try body on a
\* stack of depth one.
C33_Witness ==
    /\ thrd_status[MainThread] = "running"
    /\ budget[MainThread].tries = CatchTries - 2
    /\ budget[MainThread].throws = CatchThrows - 1
    /\ current_id[MainThread] # NULL
    /\ ~InFlight(MainThread)
    /\ Len(stack[MainThread]) = 1
    /\ pc[MainThread] = "body"
    /\ Top(stack[MainThread]).body = "try"
    /\ Top(stack[MainThread]).error = 0

\* The scope at depth n of t has no exception pending before the step and has
\* one after it: the exception is offered to that block.
Offered(t, n) ==
    /\ n <= Len(stack'[t])
    /\ stack'[t][n].error # 0
    /\ n > Len(stack[t]) \/ stack[t][n].error = 0

\* C34: a block is left with its exception pending only after no catch clause
\* of it matched and its finally body has run; leaving it pops it, and the
\* exception is then pending in the next enclosing block, which has run no
\* catch or finally body yet, or, with no block left, the thread ends on the
\* unhandled path.  An exception is offered to a block only by a throw in its
\* own body or by the block directly inside it being left, and while a block
\* is inside another the outer one has no exception and has run no clause.
C34_PropagatesScopeByScope ==
    /\ [](\A t \in Threads : \A n \in 1 .. Len(stack[t]) - 1 :
             /\ stack[t][n].error = 0
             /\ Positions(stack[t][n].hist, "catch") = {}
             /\ Positions(stack[t][n].hist, "finally") = {})
    /\ [][\A t \in Threads :
            LET n == Len(stack[t])
            IN  /\ (LeavesTry(t) /\ Top(stack[t]).error # 0) =>
                      /\ Top(stack[t]).nomatch = current_id[t]
                      /\ FirstMatch(Top(stack[t]).clauses, current_id[t]) = 0
                      /\ Positions(Top(stack[t]).hist, "catch") = {}
                      /\ Cardinality(Positions(Top(stack[t]).hist, "finally")) = 1
                      /\ IF n > 1
                         THEN /\ Len(stack'[t]) = n - 1
                              /\ Offered(t, n - 1)
                              /\ pc'[t] = "loop"
                              /\ thrd_status'[t] = "running"
                              /\ stack'[t][n - 1].hist = stack[t][n - 1].hist
                              /\ current_id'[t] = current_id[t]
                         ELSE /\ stack'[t] = <<>>
                              /\ thrd_status'[t] = "exited"
                              /\ thrd_code'[t] = EXIT_FAILURE
                              /\ diag'[t] = Append(diag[t],
                                     <<"Unhandled exception", current_id[t]>>)
                /\ \A k \in 1 .. Len(stack'[t]) :
                      Offered(t, k) =>
                         /\ k = Len(stack'[t])
                         /\ \/ n = k /\ Top(stack[t]).body = "try"
                            \/ n = k + 1 /\ LeavesTry(t) /\ Top(stack[t]).error # 0]_vars

\* An exception thrown in an inner block that had no clause for it is in the
\* catch body of the enclosing block, the inner block gone.
C34_Witness ==
    /\ Len(stack[MainThread]) = 1
    /\ budget[MainThread].tries = OrderTries - 2
    /\ pc[MainThread] = "body"
    /\ Top(stack[MainThread]).body = "catch"
    /\ Top(stack[MainThread]).clauses = <<"int", "finally", "char">>
    /\ Top(stack[MainThread]).recv.via = "propagate"
    /\ Top(stack[MainThread]).caught.id = "char"

\* t enters the throw algorithm in this step: by throw(), or by leaving a block
\* of the program with the exception pending (after rethrow() or no match).
EntersThrow(t) ==
    \/ budget'[t].throws < budget[t].throws
    \/ LeavesTry(t) /\ Top(stack[t]).error # 0 /\ Top(stack[t]).owner = "user"

\* t leaves the block __except_throw wraps the hook in, the hook called once.
HookReturned(t) ==
    /\ LeavesTry(t)
    /\ Top(stack[t]).owner = "on_throw"
    /\ Top(stack[t]).hist = << <<"try", 0, NULL>> >>

\* C35: with the on-throw hook installed, every entry to the throw algorithm
\* (throw(), and leaving a block with the exception pending, after rethrow() or
\* when no clause matched) sets up one call of the hook before any transfer;
\* the hook is called only so, once per entry, with the pending type tag and
\* payload; and the exception reaches a try block, or the unhandled end, only
\* when that call has returned.  So an exception that leaves n blocks before
\* it is caught has caused n + 1 calls.
C35_HookOncePerEntry ==
    [][\A t \in Threads :
          /\ EntersThrow(t) =>
                /\ stack'[t] # <<>>
                /\ Top(stack'[t]).owner = "on_throw"
                /\ Top(stack'[t]).stage = __EXCEPT_STAGE_TRY
                /\ Top(stack'[t]).error = 0
                /\ Top(stack'[t]).hist = <<>>
                /\ calls'[t] = calls[t]
                /\ thrd_status'[t] = "running"
                /\ \A k \in 1 .. Len(stack'[t]) : ~Offered(t, k)
          /\ calls'[t]["on_throw"].n # calls[t]["on_throw"].n =>
                /\ calls'[t]["on_throw"].n = calls[t]["on_throw"].n + 1
                /\ pc[t] = "loop"
                /\ Top(stack[t]).owner = "on_throw"
                /\ Top(stack[t]).hist = <<>>
                /\ calls'[t]["on_throw"].id = current_id[t]
                /\ calls'[t]["on_throw"].exc = current_exception[t]
                /\ flight[t].id = current_id[t]
                /\ ReadAs(flight[t].id, current_exception[t])
                      = ReadAs(flight[t].id, flight[t].val)
          /\ (stack[t] # <<>> /\ stack'[t] # stack[t]
                /\ Top(stack[t]).owner = "on_throw" /\ Len(stack'[t]) < Len(stack[t])) =>
                HookReturned(t)
          /\ \A k \in 1 .. Len(stack'[t]) :
                Offered(t, k) => HookReturned(t) /\ k = Len(stack[t]) - 1
          /\ (thrd_status[t] = "running" /\ thrd_status'[t] = "exited") =>
                HookReturned(t) /\ Len(stack[t]) = 1]_vars

\* The program's one exception left an inner block that had no clause for it
\* and is in the catch body of the enclosing block: the hook was called twice,
\* the second time with the payload thrown.
C35_Witness ==
    /\ budget[MainThread].throws = OnThrowThrows - 1
    /\ Len(stack[MainThread]) = 1
    /\ pc[MainThread] = "body"
    /\ Top(stack[MainThread]).body = "catch"
    /\ Top(stack[MainThread]).recv.via = "propagate"
    /\ calls[MainThread]["on_throw"].n = 2
    /\ calls[MainThread]["on_throw"].exc = Top(stack[MainThread]).caught.exc
    /\ calls[MainThread]["on_throw"].id = Top(stack[MainThread]).caught.id

\* C36: a block that had no clause for the exception thrown to it, and whose
\* finally body has run to its end (complete nested try blocks included), is
\* left with the type tag and the payload of that exception in the thread's
\* record, which is what the next enclosing block is given.
C36_PendingSurvivesFinally ==
    \A t \in Threads :
        (/\ pc[t] = "loop"
         /\ thrd_status[t] = "running"
         /\ Len(stack[t]) > 1
         /\ Top(stack[t]).owner = "user"
         /\ Top(stack[t]).stage = __EXCEPT_STAGE_PROPAGATE
         /\ Top(stack[t]).error # 0
         /\ Top(stack[t]).recv.via # "rethrow"
         /\ Top(stack[t]).recv.from = "try"
         /\ Positions(Top(stack[t]).hist, "catch") = {}
         /\ Cardinality(Positions(Top(stack[t]).hist, "finally")) = 1)
        => /\ current_id[t] = Top(stack[t]).recv.id
           /\ ReadAs(Top(stack[t]).recv.id, current_exception[t])
                 = ReadAs(Top(stack[t]).recv.id, Top(stack[t]).recv.val)

\* C37: with fault translation on, the thread runs the program's code with no
\* fault signal blocked: when a translated fault is in a catch body the signal
\* mask is the one its block saved at entry and the faulting signal is not in
\* it; so every fault in a try body, the first and any later one of the same
\* signal, is translated, resumes the innermost block with the fault's
\* exception pending, and kills nothing.
C37_FaultsCaughtAgain ==
    /\ [](\A t \in Threads :
             /\ (pc[t] = "body" /\ thrd_status[t] = "running") => sigmask[t] = {}
             /\ \A n \in UserScopes(t) :
                   LET f == stack[t][n]
                   IN  (f.body = "catch" /\ f.recv.via \in Signals) =>
                          /\ f.recv.via \notin sigmask[t]
                          /\ n = Len(stack[t]) => sigmask[t] = f.mask)
    /\ [][\A t \in Threads :
            (/\ budget'[t].throws < budget[t].throws
             /\ sigcatch = "enabled"
             /\ stack[t] # <<>>
             /\ Top(stack[t]).body = "try")
            => /\ proc' = "running"
               /\ thrd_status'[t] = "running"
               /\ Len(stack'[t]) = Len(stack[t])
               /\ pc'[t] = "loop"
               /\ Top(stack'[t]).error # 0
               /\ Top(stack'[t]).recv.via \in Signals
               /\ current_id'[t] \in FaultTypes
               /\ sigmask'[t] = Top(stack[t]).mask]_vars

\* A SIGFPE was caught by catch(arithmetic_error_t, e); in a try block entered
\* after that a second SIGFPE was raised, and it is in the body of that
\* block's catch(arithmetic_error_t, e), the signal unblocked.
C37_Witness ==
    /\ Len(stack[MainThread]) = 2
    /\ budget[MainThread].throws = RefaultFaults - 2
    /\ \A n \in 1 .. 2 :
          /\ stack[MainThread][n].body = "catch"
          /\ stack[MainThread][n].recv.via = "SIGFPE"
          /\ stack[MainThread][n].recv.from = "try"
          /\ stack[MainThread][n].clauses[stack[MainThread][n].cidx] = "arithmetic_error_t"
    /\ pc[MainThread] = "body"
    /\ proc = "running"
    /\ "SIGFPE" \notin sigmask[MainThread]

====
